---- MODULE Spec2Model ----
(***************************************************************************)
(* Model of the clinics-map geocoding pipeline.                            *)
(*                                                                         *)
(* The three geocoding stages (2_1_geolocate_locationiq.py,                *)
(* 2_2_geolocate_opencage.py, 2_3_geolocate_google.py) are one state       *)
(* machine over the persisted state file network-amber-located.json: a run *)
(* loads the input list and the state file, initialises or merges,         *)
(* revalidates, walks the record list issuing lookups, checkpoints every   *)
(* ten requests and saves at the end.  A run may crash at any point        *)
(* between two file writes, which loses the in-memory list.                *)
(*                                                                         *)
(* A clinic is a Python dict: here a function from its keys to its values, *)
(* so that "key absent" and "key present with []" are different states,    *)
(* exactly as in the code.  Coordinates are in hundredths of a degree.     *)
(***************************************************************************)
EXTENDS Integers, Sequences, FiniteSets, TLC

\* ------------------------------------------------------------ bounds

\* Number of records of the input list network-amber.json (Spec).
NumRecords == 2

\* Number of provider runs in one behaviour.
MaxRuns == 2

\* Largest --max-requests value tried besides "none" (caps are 0..MaxCap).
MaxCap == 1

\* SpecLong: how many lookups of a behaviour the service answers with
\* coordinates (every other lookup is answered with a failure).
MaxAnswers == 1

\* ------------------------------------------------- program constants

\* total_requests % 10 == 0: the checkpoint interval.
CheckpointEvery == 10

\* 22.5 <= lat <= 26.5 and 52.0 <= lng <= 57.0, in hundredths of a degree.
LatMin == 2250

LatMax == 2650

LngMin == 5200

LngMax == 5700

\* argparse default=None for --max-requests.
NoMaxRequests == 0 - 1

\* No bound on the answers of the geocoding service (Spec).
Unlimited == 0 - 1

LOCATIONIQ == "locationiq"

OPENCAGE == "opencage"

GOOGLE == "google"

Providers == {LOCATIONIQ, OPENCAGE, GOOGLE}

Fallbacks == {OPENCAGE, GOOGLE}

\* ------------------------------------------------------------- state

VARIABLES
    clinics,          \* the input list (network-amber.json), fixed
    file,             \* content of network-amber-located.json (<<>> when absent)
    fileExists,       \* whether network-amber-located.json exists
    pc,               \* "idle" | "loop" | "counted" | "final" | "done" | "crashed"
    provider,         \* the script running
    max_requests,     \* args.max_requests (NoMaxRequests for None)
    located_clinics,  \* the in-memory list of the run
    idx,              \* position of the for loop in located_clinics
    total_requests,   \* requests made by this run
    delayed,          \* whether time.sleep ran since the last lookup
    quota,            \* answers with coordinates the service still gives
    \* history, read by the properties only
    origin,           \* "absent" | "existing": the state file before the first run
    firstFile,        \* the state file before the first run (<<>> when absent)
    runs,             \* runs started
    issued,           \* issued[p][id]: lookups provider p issued for record id
    resets,           \* <<p, id>>: a pair of p reset to [] by revalidation
    runLooked,        \* positions looked up by this run, in order
    eligible0,        \* positions eligible when the loop of this run started
    startFile,        \* the state file when this run started
    target,           \* the clinic as it was when the pending lookup was issued
    result,           \* what geocode returned for the pending lookup
    crashedEver,      \* whether some run crashed
    last,             \* summary of the run that ended last
    prev,             \* summary of the run that ended before the current one
    \* stage 1 and stage 3 (pure functions of their input)
    calc              \* the call under evaluation: its input, then its output

vars == <<clinics, file, fileExists, pc, provider, max_requests, located_clinics,
          idx, total_requests, delayed, quota, origin, firstFile, runs, issued, resets,
          runLooked, eligible0, startFile, target, result, crashedEver, last, prev,
          calc>>

\* ----------------------------------------------------------- helpers

\* d[k] = v on a dict.
Put(d, k, v) == [x \in DOMAIN d \cup {k} |-> IF x = k THEN v ELSE d[x]]

\* if k not in d: d[k] = v
SetDefault(d, k, v) == IF k \in DOMAIN d THEN d ELSE Put(d, k, v)

\* The ids of a list of clinics (the keys of located_dict / input_dict).
IdsOf(list) == {list[j].id : j \in 1..Len(list)}

\* The clinic of a list with the given id (located_dict[id]); ids are unique.
ById(list, id) == list[CHOOSE j \in 1..Len(list) : list[j].id = id]

\* Stage 1 output: {id, name, address, phone}.
InputRecord(k) ==
    [id |-> k, name |-> <<"n">>, address |-> <<"a">>, phone |-> <<"t">>]

InputList(n) == [k \in 1..n |-> InputRecord(k)]

\* What geocode may return: None (<<>>: timeout, error, non-200, empty body)
\* or a (lat, lng) tuple: inside Abu Dhabi, New York, the south-west corner of
\* the box, and a point just north of it.
GeocodeNone == <<>>

GeocodeAnswers == {<<2445, 5437>>, <<4070, 0 - 7400>>, <<LatMin, LngMin>>, <<LatMax + 1, LngMax>>}

\* What requests.get(URL, params, timeout=10) may do: raise (Timeout,
\* ConnectionError), or return a response with a status code and a body that
\* does not parse ("malformed"), parses to no result ("empty"), or holds a
\* first result with coordinates ("results").
NoBody == [raised |-> "", status_code |-> 0, body |-> "", lat |-> 0, lng |-> 0]

ServiceResponses ==
    {[NoBody EXCEPT !.raised = e] : e \in {"Timeout", "ConnectionError"}}
    \cup {[NoBody EXCEPT !.status_code = 200, !.body = b] : b \in {"malformed", "empty"}}
    \cup {[NoBody EXCEPT !.status_code = c, !.body = "results", !.lat = a[1], !.lng = a[2]] :
             <<c, a>> \in {200, 500} \X GeocodeAnswers}

\* geocode without the test of r.status_code.
geocode_status_unchecked(resp) ==
    IF resp.raised # "" THEN GeocodeNone
    ELSE IF resp.body \in {"malformed", "empty"} THEN GeocodeNone
    ELSE <<resp.lat, resp.lng>>

\* geocode(q): every exception is caught and gives None, as do a status other
\* than 200 and an empty result list.
geocode(resp) ==
    IF resp.raised # "" THEN GeocodeNone
    ELSE IF resp.status_code # 200 THEN GeocodeNone
    ELSE IF resp.body \in {"malformed", "empty"} THEN GeocodeNone
    ELSE <<resp.lat, resp.lng>>

\* The docstring's box (lat: 22-27, lng: 52-57) instead of the code's.
is_valid_uae_coordinates_docstring(lat, lng) ==
    2200 <= lat /\ lat <= 2700 /\ 5200 <= lng /\ lng <= 5700

is_valid_uae_coordinates(lat, lng) ==
    LatMin <= lat /\ lat <= LatMax /\ LngMin <= lng /\ lng <= LngMax

\* OpenCage retrying its own failures: the "opencage" in clinic test dropped.
should_geocode_opencage_retry(clinic) ==
    /\ LOCATIONIQ \in DOMAIN clinic
    /\ Len(clinic[LOCATIONIQ]) = 0
    /\ (OPENCAGE \in DOMAIN clinic => clinic[OPENCAGE] = <<>>)

should_geocode_opencage(clinic) ==
    /\ LOCATIONIQ \in DOMAIN clinic
    /\ ~ (Len(clinic[LOCATIONIQ]) > 0)
    /\ ~ (OPENCAGE \in DOMAIN clinic)

should_geocode_google(clinic) == ~ (GOOGLE \in DOMAIN clinic)

\* Whether the loop body of provider p goes on to a lookup for this clinic.
Eligible(p, clinic) ==
    IF p = LOCATIONIQ THEN ~ (LOCATIONIQ \in DOMAIN clinic)
    ELSE IF p = OPENCAGE THEN should_geocode_opencage(clinic)
    ELSE should_geocode_google(clinic)

\* A record taken from the input gets locationiq = [] (unconditionally in the
\* LocationIQ script, if not present in the other two).
InitEntry(p, clinic) ==
    IF p = LOCATIONIQ THEN Put(clinic, LOCATIONIQ, <<>>)
    ELSE SetDefault(clinic, LOCATIONIQ, <<>>)

\* if not located_clinics: located_clinics = clinics.copy(), each initialised.
InitFromInput(p, input) == [j \in 1..Len(input) |-> InitEntry(p, input[j])]

\* The merge refreshing the records of the state file from the input.
Merge_refreshing(p, located, input) ==
    LET new == SelectSeq(input, LAMBDA c : c.id \notin IdsOf(located))
        Fresh(c) == IF c.id \in IdsOf(input)
                    THEN [x \in DOMAIN c |-> IF x \in DOMAIN ById(input, c.id)
                                              THEN ById(input, c.id)[x] ELSE c[x]]
                    ELSE c
    IN  [j \in 1..Len(located) |-> Fresh(located[j])]
        \o [j \in 1..Len(new) |-> InitEntry(p, new[j])]

\* Merge any new clinics from input that aren't in the located file.
Merge(p, located, input) ==
    LET new == SelectSeq(input, LAMBDA c : c.id \notin IdsOf(located))
    IN  located \o [j \in 1..Len(new) |-> InitEntry(p, new[j])]

\* Whether revalidation clears the entry of p in this clinic.
Invalid(p, clinic) ==
    /\ p \in DOMAIN clinic
    /\ Len(clinic[p]) = 2
    /\ ~ is_valid_uae_coordinates(clinic[p][1], clinic[p][2])

\* Revalidation clearing the out-of-box pairs of every provider.
Revalidate_every_provider(p, located) ==
    [j \in 1..Len(located) |->
        [x \in DOMAIN located[j] |->
            IF x \in Providers /\ Invalid(x, located[j]) THEN <<>> ELSE located[j][x]]]

\* Validate existing coordinates of p.
Revalidate(p, located) ==
    [j \in 1..Len(located) |->
        IF Invalid(p, located[j]) THEN Put(located[j], p, <<>>) ELSE located[j]]

\* load_json_file(OUTPUT_FILE): [] if the file does not exist.
load_json_file == IF fileExists THEN file ELSE <<>>

\* The list the loop walks: initialised from the input, or merged and revalidated.
Loaded(p) ==
    IF load_json_file = <<>> THEN InitFromInput(p, clinics)
    ELSE Revalidate(p, Merge(p, load_json_file, clinics))

\* The entry stored without the bounds check.
Stored_unvalidated(res) == res

\* The entry stored with the longitude checked and the latitude not.
Stored_longitude_only(res) ==
    IF res # GeocodeNone
    THEN IF LngMin <= res[2] /\ res[2] <= LngMax THEN res ELSE <<>>
    ELSE <<>>

\* The entry stored for a geocode result.
Stored(res) ==
    IF res # GeocodeNone
    THEN IF is_valid_uae_coordinates(res[1], res[2]) THEN res ELSE <<>>
    ELSE <<>>

\* The max-requests test with > for >=.
CapReached_off_by_one == max_requests # NoMaxRequests /\ total_requests > max_requests

\* args.max_requests is not None and total_requests >= args.max_requests
CapReached == max_requests # NoMaxRequests /\ total_requests >= max_requests

\* The checkpoint interval doubled.
CheckpointDue_every_twenty == total_requests % (2 * CheckpointEvery) = 0

\* if total_requests % 10 == 0: save
CheckpointDue == total_requests % CheckpointEvery = 0

\* time.sleep(0.6) / time.sleep(1.1) / commented out in the Google script.
Sleeps(p) == p \in {LOCATIONIQ, OPENCAGE}

\* The --max-requests values tried.
CapChoices ==
    {NoMaxRequests} \cup (0..MaxCap)
        \cup (IF Len(clinics) > CheckpointEvery THEN {CheckpointEvery + 1} ELSE {})

NoTarget == [id |-> 0]

NoRun ==
    [provider |-> "", max_requests |-> NoMaxRequests, outcome |-> "none",
     at |-> "idle", file |-> <<>>, requests |-> 0, lost |-> {}, expect |-> {}]

\* Positions of a list eligible for provider p, in list order.
EligiblePositions(p, located) ==
    SelectSeq([j \in 1..Len(located) |-> j], LAMBDA j : Eligible(p, located[j]))

SeqToSet(s) == {s[j] : j \in 1..Len(s)}

\* ------------------------------------------------------ initial states

\* The entries a record of an existing state file may hold for a provider:
\* [] or a pair, inside or outside the box; a provider not in the domain of a
\* seed is absent from the record.
SeedValues == {<<>>, <<2445, 5437>>, <<4070, 0 - 7400>>}

Seeds == UNION {[S -> SeedValues] : S \in SUBSET Providers}

Seeded(clinic, seed) ==
    [x \in DOMAIN clinic \cup DOMAIN seed |->
        IF x \in DOMAIN seed THEN seed[x] ELSE clinic[x]]

\* State files left by earlier runs or put there by hand: the first k input
\* records, without provider keys but for one record, which holds any
\* combination of entries.
ExistingFiles(input) ==
    {[j \in 1..k |-> IF j = s THEN Seeded(input[j], seed) ELSE input[j]] :
        <<k, s, seed>> \in
            {t \in (1..Len(input)) \X (1..Len(input)) \X Seeds : t[2] <= t[1]}}

\* No stage 1 or stage 3 call is under evaluation.
NoCalc == [op |-> "none"]

InitRun ==
    /\ pc = "idle"
    /\ provider = ""
    /\ max_requests = NoMaxRequests
    /\ located_clinics = <<>>
    /\ idx = 0
    /\ total_requests = 0
    /\ delayed = FALSE
    /\ runs = 0
    /\ issued = [p \in Providers |-> [id \in IdsOf(clinics) |-> 0]]
    /\ resets = {}
    /\ runLooked = <<>>
    /\ eligible0 = <<>>
    /\ startFile = <<>>
    /\ target = NoTarget
    /\ result = GeocodeNone
    /\ crashedEver = FALSE
    /\ last = NoRun
    /\ prev = NoRun

InitFile(files) ==
    \/ /\ origin = "absent"
       /\ fileExists = FALSE
       /\ file = <<>>
       /\ firstFile = <<>>
    \/ /\ origin = "existing"
       /\ fileExists = TRUE
       /\ file \in files
       /\ firstFile = file

Init ==
    /\ clinics = InputList(NumRecords)
    /\ quota = Unlimited
    /\ InitFile(ExistingFiles(clinics))
    /\ InitRun
    /\ calc = NoCalc

\* A long input list: the checkpoint interval is passed, and a cap above it
\* can still be hit.  The state file is absent or a copy of the input.
InitLong ==
    /\ clinics = InputList(CheckpointEvery + 2)
    /\ quota = MaxAnswers
    /\ InitFile({clinics})
    /\ InitRun
    /\ calc = NoCalc

\* Lists of up to n records with distinct ids among 1..MaxId, in any order,
\* each record one of the variants of its id.
MaxId == 3

ListsOf(n, Variants(_)) ==
    UNION {{[j \in 1..k |-> choice[j]] :
               choice \in {c \in [1..k -> UNION {Variants(id) : id \in 1..MaxId}] :
                              \A i, j \in 1..k : i # j => c[i].id # c[j].id}} : k \in 0..n}

\* An input that has changed since the state file was written: records
\* added, removed and reordered, and the state file holding other names and
\* entries of earlier passes.
InitMerge ==
    /\ clinics \in ListsOf(MaxId, LAMBDA id : {InputRecord(id)})
    /\ quota = Unlimited
    /\ origin = "existing"
    /\ fileExists = TRUE
    /\ file \in ListsOf(2, LAMBDA id :
                   {Seeded([InputRecord(id) EXCEPT !.name = name], seed) :
                       name \in {<<"n">>, <<"m">>},
                       seed \in {<<>>, [locationiq |-> <<>>],
                                 [locationiq |-> <<>>, opencage |-> <<2445, 5437>>]}})
    /\ firstFile = file
    /\ InitRun
    /\ calc = NoCalc

\* A geocoding service whose response depends on the record only: the query
\* is f"{clinic['name']}, {clinic['address']}", and the name decides between
\* coordinates in Abu Dhabi, coordinates in New York and no result.
ResponseOf(clinic) ==
    IF clinic.name = <<"n">>
    THEN [NoBody EXCEPT !.status_code = 200, !.body = "results", !.lat = 2445, !.lng = 5437]
    ELSE IF clinic.name = <<"m">>
    THEN [NoBody EXCEPT !.status_code = 200, !.body = "results", !.lat = 4070, !.lng = 0 - 7400]
    ELSE [NoBody EXCEPT !.status_code = 200, !.body = "empty"]

\* Runs of one behaviour of SpecResume.
MaxResumeRuns == 4

\* What an earlier LocationIQ pass and earlier fallback passes left in a
\* record: nothing, a failure, a pair, a failure with an out-of-box pair of
\* a fallback.
ResumeSeeds ==
    {<<>>, [locationiq |-> <<>>], [locationiq |-> <<2445, 5437>>]}
    \cup {[locationiq |-> <<>>] @@ (p :> <<4070, 0 - 7400>>) : p \in Fallbacks}

\* MaxId records with any names; the state file is absent or holds the
\* first records of the input with what earlier passes left in them.
InitResume ==
    /\ clinics \in {[k \in 1..MaxId |-> [InputRecord(k) EXCEPT !.name = names[k]]] :
                      names \in [1..MaxId -> {<<"n">>, <<"m">>, <<"o">>}]}
    /\ quota = Unlimited
    /\ InitFile({[j \in 1..k |-> Seeded(clinics[j], seeds[j])] :
                    <<k, seeds>> \in {t \in (1..MaxId) \X [1..MaxId -> ResumeSeeds] :
                                         \A j \in (t[1] + 1)..MaxId : t[2][j] = <<>>}})
    /\ InitRun
    /\ calc = NoCalc

\* ------------------------------------------------------------ actions

\* main() up to the loop: parse --max-requests, load both files, initialise
\* or merge, revalidate.
Start(p, cap) ==
    /\ pc \in {"idle", "done", "crashed"}
    /\ pc' = "loop"
    /\ provider' = p
    /\ max_requests' = cap
    /\ located_clinics' = Loaded(p)
    /\ idx' = 1
    /\ total_requests' = 0
    /\ delayed' = FALSE
    /\ runs' = runs + 1
    /\ resets' = resets \cup
          (IF load_json_file = <<>> THEN {}
           ELSE {<<p, c.id>> : c \in {x \in SeqToSet(load_json_file) : Invalid(p, x)}})
    /\ runLooked' = <<>>
    /\ eligible0' = EligiblePositions(p, Loaded(p))
    /\ startFile' = load_json_file
    /\ target' = NoTarget
    /\ result' = GeocodeNone
    /\ prev' = last
    /\ UNCHANGED <<calc, clinics, file, fileExists, quota, origin, firstFile, issued, crashedEver, last>>

\* One of the MaxRuns runs of a behaviour.
StartRun(p, cap) ==
    /\ runs < MaxRuns
    /\ Start(p, cap)

\* The loop body's continue: the clinic is not eligible for this provider.
Skip ==
    /\ pc = "loop"
    /\ idx <= Len(located_clinics)
    /\ ~ Eligible(provider, located_clinics[idx])
    /\ idx' = idx + 1
    /\ UNCHANGED <<calc, clinics, file, fileExists, pc, provider, max_requests,
                   located_clinics, total_requests, delayed, quota, origin, firstFile, runs,
                   issued, resets, runLooked, eligible0, startFile, target, result,
                   crashedEver, last, prev>>

\* The break at the cap with every script marking the record as the
\* LocationIQ script does.
CapBreak_marking ==
    /\ pc = "loop"
    /\ idx <= Len(located_clinics)
    /\ Eligible(provider, located_clinics[idx])
    /\ CapReached
    /\ located_clinics' = [located_clinics EXCEPT ![idx] = Put(@, provider, <<>>)]
    /\ pc' = "final"
    /\ UNCHANGED <<calc, clinics, file, fileExists, provider, max_requests, idx,
                   total_requests, delayed, quota, origin, firstFile, runs, issued, resets,
                   runLooked, eligible0, startFile, target, result, crashedEver,
                   last, prev>>

\* The loop body's break at the request cap.  The LocationIQ script has
\* already set clinic["locationiq"] = [] when it tests the cap.
CapBreak ==
    /\ pc = "loop"
    /\ idx <= Len(located_clinics)
    /\ Eligible(provider, located_clinics[idx])
    /\ CapReached
    /\ located_clinics' =
          IF provider = LOCATIONIQ
          THEN [located_clinics EXCEPT ![idx] = Put(@, LOCATIONIQ, <<>>)]
          ELSE located_clinics
    /\ pc' = "final"
    /\ UNCHANGED <<calc, clinics, file, fileExists, provider, max_requests, idx,
                   total_requests, delayed, quota, origin, firstFile, runs, issued, resets,
                   runLooked, eligible0, startFile, target, result, crashedEver,
                   last, prev>>

\* One geocoding lookup: result = geocode(query) on the service's response,
\* the entry stored, total_requests += 1.
Lookup(resp) ==
    LET res == geocode(resp) IN
    /\ pc = "loop"
    /\ idx <= Len(located_clinics)
    /\ Eligible(provider, located_clinics[idx])
    /\ ~ CapReached
    /\ res # GeocodeNone => quota # 0
    /\ quota' = IF res # GeocodeNone /\ quota > 0 THEN quota - 1 ELSE quota
    /\ located_clinics' = [located_clinics EXCEPT ![idx] = Put(@, provider, Stored(res))]
    /\ total_requests' = total_requests + 1
    /\ delayed' = FALSE
    /\ issued' = [issued EXCEPT ![provider][located_clinics[idx].id] = @ + 1]
    /\ runLooked' = Append(runLooked, idx)
    /\ target' = located_clinics[idx]
    /\ result' = res
    /\ pc' = "counted"
    /\ UNCHANGED <<calc, clinics, file, fileExists, provider, max_requests, idx, origin, firstFile,
                   runs, resets, eligible0, startFile, crashedEver, last, prev>>

\* The rest of the loop body after a lookup: the checkpoint every ten
\* requests, then the provider's delay.
AfterRequest ==
    /\ pc = "counted"
    /\ IF CheckpointDue
       THEN file' = located_clinics /\ fileExists' = TRUE
       ELSE UNCHANGED <<file, fileExists>>
    /\ delayed' = Sleeps(provider)
    /\ idx' = idx + 1
    /\ target' = NoTarget
    /\ result' = GeocodeNone
    /\ pc' = "loop"
    /\ UNCHANGED <<calc, clinics, provider, max_requests, located_clinics, total_requests,
                   quota, origin, firstFile, runs, issued, resets, runLooked, eligible0,
                   startFile, crashedEver, last, prev>>

\* The for loop runs out of clinics.
LoopEnd ==
    /\ pc = "loop"
    /\ idx > Len(located_clinics)
    /\ pc' = "final"
    /\ UNCHANGED <<calc, clinics, file, fileExists, provider, max_requests,
                   located_clinics, idx, total_requests, delayed, quota, origin, firstFile,
                   runs, issued, resets, runLooked, eligible0, startFile, target,
                   result, crashedEver, last, prev>>

\* The final save left out when the loop stopped at the cap.
FinalSave_not_after_break ==
    /\ pc = "final"
    /\ IF idx <= Len(located_clinics)
       THEN UNCHANGED <<file, fileExists>>
       ELSE file' = located_clinics /\ fileExists' = TRUE
    /\ pc' = "done"
    /\ last' = [provider |-> provider, max_requests |-> max_requests,
                outcome |-> "done", at |-> pc, file |-> located_clinics,
                requests |-> total_requests, lost |-> {}, expect |-> {}]
    /\ UNCHANGED <<calc, clinics, provider, max_requests, located_clinics, idx,
                   total_requests, delayed, quota, origin, firstFile, runs, issued, resets,
                   runLooked, eligible0, startFile, target, result, crashedEver, prev>>

\* Final save.
FinalSave ==
    /\ pc = "final"
    /\ file' = located_clinics
    /\ fileExists' = TRUE
    /\ pc' = "done"
    /\ last' = [provider |-> provider, max_requests |-> max_requests,
                outcome |-> "done", at |-> pc, file |-> located_clinics,
                requests |-> total_requests, lost |-> {}, expect |-> {}]
    /\ UNCHANGED <<calc, clinics, provider, max_requests, located_clinics, idx,
                   total_requests, delayed, quota, origin, firstFile, runs, issued, resets,
                   runLooked, eligible0, startFile, target, result, crashedEver, prev>>

\* Whether the state file holds provider p's entry for the record with this id.
Persisted(p, id) == id \in IdsOf(file) /\ p \in DOMAIN ById(file, id)

\* The records whose lookup this run completed and whose result is not in the
\* state file.
LostIds ==
    {located_clinics[j].id : j \in {x \in SeqToSet(runLooked) :
                                      ~ Persisted(provider, located_clinics[x].id)}}

\* The records eligible when the loop started that this run has not looked up.
UnreachedIds ==
    {located_clinics[j].id : j \in SeqToSet(eligible0) \ SeqToSet(runLooked)}

\* The process dies (kill, power loss, KeyboardInterrupt) between two file
\* writes: the in-memory list is gone, the state file is as last written.
Crash ==
    /\ pc \in {"loop", "counted", "final"}
    /\ pc' = "crashed"
    /\ crashedEver' = TRUE
    /\ last' = [provider |-> provider, max_requests |-> max_requests,
                outcome |-> "crashed", at |-> pc, file |-> file,
                requests |-> total_requests, lost |-> LostIds,
                expect |-> LostIds \cup UnreachedIds]
    /\ located_clinics' = <<>>
    /\ idx' = 0
    /\ target' = NoTarget
    /\ result' = GeocodeNone
    /\ runLooked' = <<>>
    /\ eligible0' = <<>>
    /\ UNCHANGED <<calc, clinics, file, fileExists, provider, max_requests,
                   total_requests, delayed, quota, origin, firstFile, runs, issued, resets,
                   startFile, prev>>

Next ==
    \/ \E p \in Providers, cap \in CapChoices : StartRun(p, cap)
    \/ Skip
    \/ CapBreak
    \/ \E resp \in ServiceResponses : Lookup(resp)
    \/ AfterRequest
    \/ LoopEnd
    \/ FinalSave
    \/ Crash

Spec == Init /\ [][Next]_vars

SpecLong == InitLong /\ [][Next]_vars

\* The start of one uncapped pass of any provider over the changed input.
NextMerge == \E p \in Providers : StartRun(p, NoMaxRequests)

SpecMerge == InitMerge /\ [][NextMerge]_vars

\* A fallback pass repeated over the unchanged input, capped (--max-requests
\* 1 or 2) or not, until a run issues no lookup.
ResumeRun(p, cap) ==
    /\ runs < MaxResumeRuns
    /\ runs > 0 => (p = provider /\ total_requests > 0)
    /\ Start(p, cap)

\* The lookup of the record-determined service.
LookupOf ==
    /\ pc = "loop"
    /\ idx <= Len(located_clinics)
    /\ Lookup(ResponseOf(located_clinics[idx]))

NextResume ==
    \/ \E p \in Fallbacks, cap \in {NoMaxRequests, 1, 2} : ResumeRun(p, cap)
    \/ Skip
    \/ CapBreak
    \/ LookupOf
    \/ AfterRequest
    \/ LoopEnd
    \/ FinalSave

SpecResume == InitResume /\ [][NextResume]_vars

\* The run's own steps: everything but a crash and the start of another run.
RunStep ==
    \/ Skip
    \/ CapBreak
    \/ \E resp \in ServiceResponses : Lookup(resp)
    \/ AfterRequest
    \/ LoopEnd
    \/ FinalSave

\* A script that has not crashed keeps executing its next statement (every
\* geocode call returns: requests.get has timeout=10).
SpecLongFair == SpecLong /\ WF_vars(RunStep)

\* ------------------------------------------ stage 1: Python strings

\* A Python str is the sequence of its characters, each a one-character
\* string; "" is <<>>.
Digits == {"0", "1", "2", "3", "4", "5", "6", "7", "8", "9"}

\* \s and str.strip(): the whitespace of the inputs tried here.
Whitespace == {" "}

RECURSIVE lstrip(_, _)
\* s.lstrip(chars)
lstrip(s, chars) ==
    IF s # <<>> /\ Head(s) \in chars THEN lstrip(Tail(s), chars) ELSE s

RECURSIVE rstrip(_, _)
\* s.rstrip(chars)
rstrip(s, chars) ==
    IF s # <<>> /\ s[Len(s)] \in chars
    THEN rstrip(SubSeq(s, 1, Len(s) - 1), chars)
    ELSE s

\* s.strip()
strip(s) == rstrip(lstrip(s, Whitespace), Whitespace)

\* s.startswith(prefix)
startswith(s, prefix) ==
    Len(s) >= Len(prefix) /\ SubSeq(s, 1, Len(prefix)) = prefix

\* s[i:] (i counted from 0, as in Python)
From(s, i) == SubSeq(s, i + 1, Len(s))

RECURSIVE split(_, _)
\* re.split(r'[...]', s) for a class of separator characters: the pieces
\* between the separators, empty pieces included.
split(s, seps) ==
    IF \A j \in 1..Len(s) : s[j] \notin seps
    THEN <<s>>
    ELSE LET j == CHOOSE x \in 1..Len(s) :
                      s[x] \in seps /\ \A y \in 1..(x - 1) : s[y] \notin seps
         IN <<SubSeq(s, 1, j - 1)>> \o split(From(s, j), seps)

RECURSIVE join(_, _)
\* sep.join(list)
join(list, sep) ==
    IF list = <<>> THEN <<>>
    ELSE IF Len(list) = 1 THEN list[1]
    ELSE list[1] \o sep \o join(Tail(list), sep)

\* What a call gives back: None, a str, or an exception that leaves the
\* function.
PyNone == [exc |-> "", none |-> TRUE, str |-> <<>>]

Str(s) == [exc |-> "", none |-> FALSE, str |-> s]

Raised(e) == [exc |-> e, none |-> TRUE, str |-> <<>>]

\* Python truthiness of an Optional[str]: neither None nor "".
Truthy(r) == ~ r.none /\ r.str # <<>>

\* ------------------------------------------ stage 1: phone numbers

AreaCodes == {"2", "4", "5"}

\* The validation of the subscriber part and the formatting at the end of
\* normalize_single_phone; area_code is a str.
validate_and_format(area_code, rest) ==
    IF area_code \in {<<"2">>, <<"4">>}
    THEN IF Len(rest) < 7 \/ Len(rest) > 8
         THEN PyNone
         ELSE Str(<<"+", "9", "7", "1", " ">> \o area_code \o rest)
    ELSE IF area_code = <<"5">>
    THEN IF Len(rest) < 8 \/ Len(rest) > 9
         THEN PyNone
         ELSE Str(<<"+", "9", "7", "1", " ">> \o area_code \o rest)
    ELSE PyNone

\* normalize_single_phone(phone, inferred_area_code); inferred_area_code is
\* <<>> for None.  digits_only[3] raises IndexError when digits_only is "971".
normalize_single_phone(phone, inferred_area_code) ==
    LET stripped == strip(phone)
        kept == SelectSeq(stripped, LAMBDA c : c \in Digits \cup {"+"})
        unplussed == IF startswith(kept, <<"+">>) THEN From(kept, 1) ELSE kept
        digits_only == lstrip(unplussed, {"0"})
        n == Len(digits_only)
    IN
    IF stripped = <<>> THEN PyNone
    ELSE IF digits_only = <<>> THEN PyNone
    ELSE IF startswith(digits_only, <<"9", "7", "1">>)
    THEN IF n < 4 THEN Raised("IndexError")
         ELSE validate_and_format(<<digits_only[4]>>, From(digits_only, 4))
    ELSE IF startswith(digits_only, <<"0", "0", "9", "7", "1">>)
    THEN IF n < 6 THEN Raised("IndexError")
         ELSE validate_and_format(<<digits_only[6]>>, From(digits_only, 6))
    ELSE IF n >= 2 /\ digits_only[1] = "0" /\ digits_only[2] \in AreaCodes
    THEN validate_and_format(<<digits_only[2]>>, From(digits_only, 2))
    ELSE IF n >= 1 /\ digits_only[1] \in AreaCodes
    THEN validate_and_format(<<digits_only[1]>>, From(digits_only, 1))
    ELSE IF n >= 7
    THEN IF inferred_area_code # <<>> /\ n = 7
         THEN validate_and_format(inferred_area_code, digits_only)
         ELSE IF n >= 8 /\ digits_only[1] \in AreaCodes
         THEN validate_and_format(<<digits_only[1]>>, From(digits_only, 1))
         ELSE IF n = 7 /\ digits_only[1] = "4"
         THEN validate_and_format(
                  IF inferred_area_code # <<>> THEN inferred_area_code ELSE <<"2">>,
                  digits_only)
         ELSE PyNone
    ELSE PyNone

\* re.search(r'\+971 ([245])\d+', normalized).group(1), or <<>> for no match.
search_area_code(normalized) ==
    LET At(j) == /\ j + 6 <= Len(normalized)
                 /\ SubSeq(normalized, j, j + 4) = <<"+", "9", "7", "1", " ">>
                 /\ normalized[j + 5] \in AreaCodes
                 /\ normalized[j + 6] \in Digits
        found == {j \in 1..Len(normalized) : At(j)}
    IN IF found = {} THEN <<>>
       ELSE <<normalized[(CHOOSE j \in found : \A k \in found : j <= k) + 5]>>

\* phones = [p.strip() for p in re.split(r'[/,;]', phone_str) if p.strip()]
split_phones(phone_str) ==
    LET pieces == split(phone_str, {"/", ",", ";"})
        stripped == [j \in 1..Len(pieces) |-> strip(pieces[j])]
    IN SelectSeq(stripped, LAMBDA x : x # <<>>)

RECURSIVE first_pass(_, _, _)
\* First pass of normalize_phone from phones[k] on: every number that
\* normalizes on its own is appended, and the area code of the last one that
\* matches is kept.
first_pass(phones, k, acc) ==
    IF k > Len(phones) THEN acc
    ELSE LET normalized == normalize_single_phone(phones[k], <<>>)
             group == search_area_code(normalized.str)
         IN IF normalized.exc # "" THEN [acc EXCEPT !.exc = normalized.exc]
            ELSE IF Truthy(normalized)
            THEN first_pass(phones, k + 1,
                    [acc EXCEPT
                        !.normalized_phones = Append(@, normalized.str),
                        !.processed_phones = @ \cup {phones[k]},
                        !.inferred_area_code = IF group # <<>> THEN group ELSE @])
            ELSE first_pass(phones, k + 1, acc)

RECURSIVE second_pass(_, _, _)
\* Second pass of normalize_phone from phones[k] on: the numbers not yet
\* processed are tried with the inferred area code.
second_pass(phones, k, acc) ==
    IF k > Len(phones) THEN acc
    ELSE IF phones[k] \in acc.processed_phones THEN second_pass(phones, k + 1, acc)
    ELSE LET normalized == normalize_single_phone(phones[k], acc.inferred_area_code)
         IN IF normalized.exc # "" THEN [acc EXCEPT !.exc = normalized.exc]
            ELSE IF /\ Truthy(normalized)
                    /\ \A j \in 1..Len(acc.normalized_phones) :
                           acc.normalized_phones[j] # normalized.str
            THEN second_pass(phones, k + 1,
                    [acc EXCEPT
                        !.normalized_phones = Append(@, normalized.str),
                        !.processed_phones = @ \cup {phones[k]}])
            ELSE second_pass(phones, k + 1, acc)

\* normalize_phone(phone_str)
normalize_phone(phone_str) ==
    IF phone_str = <<>> THEN Str(<<>>)
    ELSE LET phones == split_phones(phone_str)
             first == first_pass(phones, 1,
                         [normalized_phones |-> <<>>, inferred_area_code |-> <<>>,
                          processed_phones |-> {}, exc |-> ""])
             second == IF first.exc = "" /\ first.inferred_area_code # <<>>
                       THEN second_pass(phones, 1, first)
                       ELSE first
         IN IF second.exc # "" THEN Raised(second.exc)
            ELSE Str(join(second.normalized_phones, <<",", " ">>))

\* Phone numbers as written in the source column: a prefix, a first digit,
\* an optional dash and up to MaxSubscriber further digits.
MaxSubscriber == 10

PhoneNumbers ==
    LET prefixes == {<<>>, <<"+">>, <<"0">>, <<"0", "0">>, <<"9", "7", "1">>,
                     <<"+", "9", "7", "1">>, <<"0", "0", "9", "7", "1">>,
                     <<"+", "9", "7", "1", " ">>}
        heads == {<<>>, <<"2">>, <<"4">>, <<"5">>, <<"6">>, <<"0">>}
        examples == {<<"2", "2", "2", "3", "3", "4", "4">>,
                     <<"0", "4", "-", "2", "2", "2", "3", "3", "3", "3">>,
                     <<"+", "9", "7", "1", "-", "4", "-", "2", "2", "2", "3", "3", "3", "3">>,
                     <<"0", "5", "0", " ", "1", "2", "3", "4", "5", "6", "7">>,
                     <<" ">>,
                     <<"x">>,
                     <<" ", "9", "7", "1", " ">>,
                     <<"0", "4", "+", "2", "2", "2", "3", "3", "3", "3">>}
    IN examples \cup
       {prefix \o head \o dash \o [j \in 1..n |-> "3"] :
           <<prefix, head, dash, n>> \in
               prefixes \X heads \X {<<>>, <<"-">>} \X (0..MaxSubscriber)}

\* inferred_area_code: None (<<>>) or the group of search_area_code.
InferredCodes == {<<>>, <<"2">>, <<"4">>, <<"5">>}

\* Phone fields: up to MaxPhones entries joined by one separator.
MaxPhones == 3

PhoneFields ==
    LET entries == {<<"0", "4", "-", "2", "2", "2", "3", "3", "3", "3">>,
                    <<"0", "4", "2", "2", "2", "3", "3", "3", "3">>,
                    <<"+", "9", "7", "1", " ", "4", " ", "2", "2", "2", "3", "3", "3", "3">>,
                    <<"6", "2", "2", "3", "3", "4", "4">>,
                    <<"0", "2", "-", "6", "2", "2", "3", "3", "4", "4">>,
                    <<"0", "5", "0", "-", "1", "2", "3", "4", "5", "6", "7">>,
                    <<"9", "7", "1">>,
                    <<"x">>}
        separators == {<<"/">>, <<",", " ">>, <<" ", ";", " ">>}
    IN {<<>>} \cup
       {join(list, sep) :
           <<list, sep>> \in (UNION {[1..n -> entries] : n \in 1..MaxPhones}) \X separators}

\* A call of a stage 1 or stage 3 function that has not returned yet;
\* previous holds the arguments of the calls whose result this call was fed.
Call(op, args) ==
    [op |-> op, args |-> args, returned |-> FALSE, out |-> PyNone, previous |-> <<>>]

pipeVars == <<clinics, file, fileExists, pc, provider, max_requests, located_clinics,
              idx, total_requests, delayed, quota, origin, firstFile, runs, issued, resets,
              runLooked, eligible0, startFile, target, result, crashedEver, last, prev>>

\* No geocoding run: stage 1 and stage 3 do not touch the state of stage 2.
InitNoRun ==
    /\ clinics = <<>>
    /\ quota = Unlimited
    /\ origin = "absent"
    /\ fileExists = FALSE
    /\ file = <<>>
    /\ firstFile = <<>>
    /\ InitRun

InitPhone ==
    /\ InitNoRun
    /\ calc \in {Call("normalize_single_phone", <<phone, inferred>>) :
                    <<phone, inferred>> \in PhoneNumbers \X InferredCodes}
                \cup {Call("normalize_phone", <<phone_str>>) : phone_str \in PhoneFields}

NormalizeSinglePhone ==
    /\ calc.op = "normalize_single_phone"
    /\ ~ calc.returned
    /\ calc' = [calc EXCEPT !.returned = TRUE,
                            !.out = normalize_single_phone(calc.args[1], calc.args[2])]
    /\ UNCHANGED pipeVars

NormalizePhone ==
    /\ calc.op = "normalize_phone"
    /\ ~ calc.returned
    /\ calc' = [calc EXCEPT !.returned = TRUE, !.out = normalize_phone(calc.args[1])]
    /\ UNCHANGED pipeVars

NextPhone ==
    \/ NormalizeSinglePhone
    \/ NormalizePhone

SpecPhone == InitPhone /\ [][NextPhone]_vars

\* ------------------------------------------ stage 1: regular expressions

LowerLetters == <<"a", "b", "c", "d", "e", "f", "g", "h", "i", "j", "k", "l", "m", "n", "o", "p", "q", "r", "s", "t", "u", "v", "w", "x", "y", "z">>

UpperLetters == <<"A", "B", "C", "D", "E", "F", "G", "H", "I", "J", "K", "L", "M", "N", "O", "P", "Q", "R", "S", "T", "U", "V", "W", "X", "Y", "Z">>

\* The position of a character in a sequence of characters (0 when absent).
IndexOf(c, letters) ==
    IF \E j \in 1..Len(letters) : letters[j] = c
    THEN CHOOSE j \in 1..Len(letters) : letters[j] = c
    ELSE 0

\* c.upper() and c.lower() of one character.
UpperChar(c) ==
    IF IndexOf(c, LowerLetters) # 0 THEN UpperLetters[IndexOf(c, LowerLetters)] ELSE c

LowerChar(c) ==
    IF IndexOf(c, UpperLetters) # 0 THEN LowerLetters[IndexOf(c, UpperLetters)] ELSE c

\* s.upper(), s.lower()
upper(s) == [j \in 1..Len(s) |-> UpperChar(s[j])]

lower(s) == [j \in 1..Len(s) |-> LowerChar(s[j])]

\* \w
WordChars ==
    {LowerLetters[j] : j \in 1..Len(LowerLetters)}
    \cup {UpperLetters[j] : j \in 1..Len(UpperLetters)}
    \cup Digits \cup {"_"}

\* A pattern is a sequence of items:
\*   [t |-> "c", chars, neg, q]  a character class ([^...] when neg) with
\*                               quantifier q: "1" (none), "?", "*" or "+";
\*   [t |-> "b"]                 \b;
\*   [t |-> "$"]                 $;
\*   [t |-> "(", alts]           the group ( alts[1] | alts[2] | ... ), which
\*                               is group 1: no pattern of the code has two;
\*   [t |-> ")", start]          the end of the group that began at start.
\* Quantifiers are greedy and alternatives are tried in order, with
\* backtracking, as in Python's re.
Cls(chars, q) == [t |-> "c", chars |-> chars, neg |-> FALSE, q |-> q]

Not(chars, q) == [t |-> "c", chars |-> chars, neg |-> TRUE, q |-> q]

\* A literal text: one item per character.
Lit(text) == [j \in 1..Len(text) |-> Cls({text[j]}, "1")]

\* \s with a quantifier
Ws(q) == Cls(Whitespace, q)

WordBoundary == [t |-> "b"]

EndOfString == [t |-> "$"]

Group(alts) == [t |-> "(", alts |-> alts]

NoMatch == [ok |-> FALSE, start |-> 0, end |-> 0, group |-> <<>>]

\* Whether the character c is in the class of the item (ic: re.IGNORECASE).
InClass(item, c, ic) ==
    (IF ic THEN UpperChar(c) \in item.chars \/ LowerChar(c) \in item.chars
           ELSE c \in item.chars) # item.neg

RECURSIVE RunLength(_, _, _, _)
\* How many characters from position pos on are in the class of the item.
RunLength(item, s, pos, ic) ==
    IF pos <= Len(s) /\ InClass(item, s[pos], ic)
    THEN 1 + RunLength(item, s, pos + 1, ic)
    ELSE 0

\* \b at position pos: exactly one of the characters before and at pos is a
\* word character.
AtWordBoundary(s, pos) ==
    (pos > 1 /\ s[pos - 1] \in WordChars) # (pos <= Len(s) /\ s[pos] \in WordChars)

\* The first of two attempts that matches: m, or else other.
OrElse(m, other) == IF m.ok THEN m ELSE other

RECURSIVE match(_, _, _, _, _, _)
RECURSIVE try_count(_, _, _, _, _, _, _, _)
RECURSIVE try_alts(_, _, _, _, _, _, _, _)
\* The match of the items from position pos on that Python's backtracking
\* finds first; start is where the whole match began, group what group 1 has
\* captured so far.
match(items, s, start, pos, group, ic) ==
    IF items = <<>> THEN [ok |-> TRUE, start |-> start, end |-> pos, group |-> group]
    ELSE LET item == Head(items)
             rest == Tail(items)
         IN
         IF item.t = "c"
         THEN LET run == RunLength(item, s, pos, ic)
                  most == IF item.q \in {"1", "?"} /\ run > 1 THEN 1 ELSE run
                  least == IF item.q \in {"1", "+"} THEN 1 ELSE 0
              IN IF most < least THEN NoMatch
                 ELSE try_count(rest, s, start, pos, group, ic, most, least)
         ELSE IF item.t = "b"
         THEN IF AtWordBoundary(s, pos) THEN match(rest, s, start, pos, group, ic)
              ELSE NoMatch
         ELSE IF item.t = "$"
         THEN IF pos = Len(s) + 1 THEN match(rest, s, start, pos, group, ic)
              ELSE NoMatch
         ELSE IF item.t = "("
         THEN try_alts(item.alts, 1, rest, s, start, pos, group, ic)
         ELSE match(rest, s, start, pos, SubSeq(s, item.start, pos - 1), ic)

\* The greedy quantifier: count characters taken, then fewer down to least.
try_count(rest, s, start, pos, group, ic, count, least) ==
    OrElse(match(rest, s, start, pos + count, group, ic),
           IF count > least
           THEN try_count(rest, s, start, pos, group, ic, count - 1, least)
           ELSE NoMatch)

\* The alternatives of a group from the k-th on, each followed by the rest.
try_alts(alts, k, rest, s, start, pos, group, ic) ==
    IF k > Len(alts) THEN NoMatch
    ELSE OrElse(match(alts[k] \o <<[t |-> ")", start |-> pos]>> \o rest,
                      s, start, pos, group, ic),
                try_alts(alts, k + 1, rest, s, start, pos, group, ic))

RECURSIVE search(_, _, _, _)
\* re.search(pattern, s) from position pos on: the leftmost match.
search(pattern, s, pos, ic) ==
    IF pos > Len(s) + 1 THEN NoMatch
    ELSE OrElse(match(pattern, s, pos, pos, <<>>, ic), search(pattern, s, pos + 1, ic))

\* A replacement template with the match filled in; "\\1" is group 1.
Expand(repl, m) ==
    IF repl = <<>> THEN <<>>
    ELSE LET parts == [j \in 1..Len(repl) |->
                          IF repl[j] = "\\1" THEN m.group ELSE <<repl[j]>>]
         IN join(parts, <<>>)

RECURSIVE sub_from(_, _, _, _, _)
RECURSIVE sub_match(_, _, _, _, _, _)
\* re.sub from position pos on, m being the leftmost match from there: the
\* text before the match, the replacement, and the rest scanned in turn.
\* After an empty match the scan moves one character on.
sub_match(pattern, repl, s, pos, ic, m) ==
    IF ~ m.ok THEN SubSeq(s, pos, Len(s))
    ELSE SubSeq(s, pos, m.start - 1) \o Expand(repl, m) \o
         (IF m.end > m.start THEN sub_from(pattern, repl, s, m.end, ic)
          ELSE IF m.start > Len(s) THEN <<>>
          ELSE <<s[m.start]>> \o sub_from(pattern, repl, s, m.start + 1, ic))

\* re.sub from position pos on: the leftmost matches, not overlapping, each
\* replaced.
sub_from(pattern, repl, s, pos, ic) ==
    sub_match(pattern, repl, s, pos, ic, search(pattern, s, pos, ic))

\* re.sub(pattern, repl, s) and re.sub(pattern, repl, s, flags=re.IGNORECASE);
\* the subject is evaluated once, before the scan starts.
sub(pattern, repl, s) ==
    CHOOSE out \in {sub_from(pattern, repl, subject, 1, FALSE) : subject \in {s}} : TRUE

subi(pattern, repl, s) ==
    CHOOSE out \in {sub_from(pattern, repl, subject, 1, TRUE) : subject \in {s}} : TRUE

\* ------------------------------------------ stage 1: clean_text

\* U+FFFD, U+FFFE and U+FFFF, each one character.
InvalidChars == {"U+FFFD", "U+FFFE", "U+FFFF"}

\* clean_text(text)
clean_text(text) ==
    LET t1 == SelectSeq(text, LAMBDA c : c \notin InvalidChars)
        t2 == subi(<<WordBoundary>> \o Lit(<<"A", "B", "U", "D", "H", "A", "B", "I">>) \o <<WordBoundary>>,
                   <<"A", "B", "U", " ", "D", "H", "A", "B", "I">>, t1)
        t3 == sub(<<Ws("+"), Cls({","}, "1")>>, <<",">>, t2)
        t4 == sub(<<Cls({","}, "1"), Group(<<<<Not(Whitespace, "1")>>>>)>>,
                  <<",", " ", "\\1">>, t3)
        t5 == sub(<<Group(<<<<Not(Whitespace \cup {"("}, "1")>>>>), Ws("*"), Cls({"("}, "1")>>,
                  <<"\\1", " ", "(">>, t4)
        t6 == sub(<<Cls({"("}, "1"), Ws("+")>>, <<"(">>, t5)
        t7 == sub(<<Ws("+"), Cls({")"}, "1")>>, <<")">>, t6)
        t8 == sub(<<Ws("*"), Cls({"-"}, "1"), Ws("*"), EndOfString>>, <<>>, t7)
        t9 == sub(<<Cls(Whitespace \cup {","}, "+"), EndOfString>>, <<>>, t8)
        t10 == sub(<<Ws("+")>>, <<" ">>, t9)
    IN IF text = <<>> THEN <<>> ELSE strip(t10)

\* Texts of up to MaxTextLen characters over letters, blanks, commas, dashes
\* and parentheses, and some longer ones.
MaxTextLen == 4

Texts ==
    LET alphabet == {"a", " ", ",", "-", "(", ")"}
        examples == {<<"A", "B", "U", "D", "H", "A", "B", "I">>,
                     <<"x", " ", "a", "b", "u", "d", "h", "a", "b", "i", ",", "y">>,
                     <<"x", "A", "B", "U", "D", "H", "A", "B", "I">>,
                     <<"A", "l", " ", "N", "o", "o", "r", "(", " ", "C", "l", "i", "n", "i", "c", " ", ")", " ", "-">>,
                     <<"a", " ", ",", "b", "(", "c", " ", ")", "-", " ", ",", " ">>,
                     <<"M", "U", "S", "S", "A", "F", "A", "H", "-", "A", "B", "U", "D", "H", "A", "B", "I", " ", "-", " ">>,
                     <<"a", "U+FFFD", "b", " ", "-", "U+FFFF">>}
    IN examples \cup UNION {[1..n -> alphabet] : n \in 0..MaxTextLen}

InitClean ==
    /\ InitNoRun
    /\ calc \in {Call("clean_text", <<text>>) : text \in Texts}

\* provider_name = clean_text(...), address = clean_text(...)
CleanText ==
    /\ calc.op = "clean_text"
    /\ ~ calc.returned
    /\ calc' = [calc EXCEPT !.returned = TRUE, !.out = Str(clean_text(calc.args[1]))]
    /\ UNCHANGED pipeVars

\* The cleaned text is cleaned again (a second conversion of a file written
\* from cleaned values).
CleanTextAgain ==
    /\ calc.op = "clean_text"
    /\ calc.returned
    /\ calc.previous = <<>>
    /\ calc' = [Call("clean_text", <<calc.out.str>>) EXCEPT !.previous = <<calc.args>>]
    /\ UNCHANGED pipeVars

NextClean ==
    \/ CleanText
    \/ CleanTextAgain

SpecClean == InitClean /\ [][NextClean]_vars

\* ------------------------------------------ stage 1: emirate and country

\* The emirates in the order the code tries them, each a list of words.
Emirates ==
    <<<<<<"A", "B", "U">>, <<"D", "H", "A", "B", "I">>>>,
      <<<<"D", "U", "B", "A", "I">>>>,
      <<<<"S", "H", "A", "R", "J", "A", "H">>>>,
      <<<<"A", "J", "M", "A", "N">>>>,
      <<<<"U", "M", "M">>, <<"A", "L">>, <<"Q", "U", "W", "A", "I", "N">>>>,
      <<<<"R", "A", "S">>, <<"A", "L">>, <<"K", "H", "A", "I", "M", "A", "H">>>>,
      <<<<"F", "U", "J", "A", "I", "R", "A", "H">>>>>>

\* ABU\s+DHABI: the words of a name with \s+ between them.
Words(words) == join([j \in 1..Len(words) |-> Lit(words[j])], <<Ws("+")>>)

\* s.title(): a letter that follows a letter is lowered, any other raised.
title(s) ==
    [j \in 1..Len(s) |->
        IF j > 1 /\ (IndexOf(s[j - 1], LowerLetters) # 0 \/ IndexOf(s[j - 1], UpperLetters) # 0)
        THEN LowerChar(s[j])
        ELSE UpperChar(s[j])]

\* 'Abu Dhabi' for <<"ABU", "DHABI">>
Spelled(words) == title(join(words, <<" ">>))

\* Whether re.search finds the pattern (ic: re.IGNORECASE).
Found(pattern, s, ic) == search(pattern, s, 1, ic).ok

RECURSIVE first_emirate_at_end(_, _)
\* The loop over emirate_patterns in extract_emirate_from_name from the k-th
\* pattern on: [- ](X)\s*$ for the seven emirates ((ABU\s+DHABI|ABUDHABI) for
\* the first), then (X)\s*$ for Dubai, Sharjah and Ajman.
first_emirate_at_end(name_upper, k) ==
    LET e == IF k <= 7 THEN k ELSE k - 6
        alts == IF k = 1 THEN <<Words(Emirates[1]), Lit(<<"A", "B", "U", "D", "H", "A", "B", "I">>)>>
                ELSE <<Words(Emirates[e])>>
        before == IF k <= 7 THEN <<Cls({"-", " "}, "1")>> ELSE <<>>
        pattern == before \o <<Group(alts), Ws("*"), EndOfString>>
    IN IF k > 10 THEN <<>>
       ELSE IF Found(pattern, name_upper, FALSE) THEN join(Emirates[e], <<" ">>)
       ELSE first_emirate_at_end(name_upper, k + 1)

\* extract_emirate_from_name(name); <<>> for None.
extract_emirate_from_name(name) ==
    LET in_parentheses ==
            search(<<Cls({"("}, "1"), Group(<<<<Not({")"}, "+")>>>>), Cls({")"}, "1"),
                     Ws("*"), EndOfString>>, name, 1, FALSE)
        emirate == upper(strip(in_parentheses.group))
        name_upper == strip(upper(name))
        at_end == first_emirate_at_end(name_upper, 1)
        Unclosed(words) ==
            <<Cls({"("}, "1"),
              Group(<<<<Not({")"}, "*")>> \o words \o <<Not({")"}, "*")>>>>),
              EndOfString>>
    IN IF name = <<>> THEN <<>>
       ELSE IF in_parentheses.ok
       THEN IF emirate = <<"G", "O", "V", "E", "R", "N", "M", "E", "N", "T", "-", "D", "H", "A">> THEN <<"D", "U", "B", "A", "I">>
            ELSE IF emirate \in {<<"A", "L", " ", "A", "I", "N">>, <<"A", "L", "A", "I", "N">>} THEN <<"A", "L", " ", "A", "I", "N">>
            ELSE emirate
       ELSE IF at_end # <<>> THEN at_end
       ELSE IF Found(Unclosed(Lit(<<"A", "B", "U">>) \o <<Ws("*")>> \o Lit(<<"D", "H", "A", "B", "I">>)), name_upper, FALSE)
       THEN <<"A", "B", "U", " ", "D", "H", "A", "B", "I">>
       ELSE IF Found(Unclosed(Lit(<<"D", "U", "B", "A", "I">>)), name_upper, FALSE) THEN <<"D", "U", "B", "A", "I">>
       ELSE <<>>

\* normalize_emirate_name(emirate)
normalize_emirate_name(emirate) ==
    LET emirate_upper == strip(upper(emirate))
        mapped == {j \in 1..Len(Emirates) : join(Emirates[j], <<" ">>) = emirate_upper}
    IN IF emirate = <<>> THEN <<>>
       ELSE IF mapped # {} THEN Spelled(Emirates[CHOOSE j \in mapped : TRUE])
       ELSE IF emirate_upper \in {<<"A", "B", "U", " ", "-", " ", "D", "H", "A", "B", "I">>, <<"A", "B", "U", "-", "D", "H", "A", "B", "I">>} THEN Spelled(Emirates[1])
       ELSE title(emirate)

RECURSIVE first_emirate_in_address(_, _)
\* extract_emirate_from_address(address) from the k-th emirate on: the first
\* emirate with \bX\b in the address, spelled 'Abu Dhabi'; <<>> for None.
first_emirate_in_address(address, k) ==
    IF k > Len(Emirates) THEN <<>>
    ELSE IF Found(<<WordBoundary>> \o Words(Emirates[k]) \o <<WordBoundary>>, address, TRUE)
    THEN Spelled(Emirates[k])
    ELSE first_emirate_in_address(address, k + 1)

extract_emirate_from_address(address) ==
    IF address = <<>> THEN <<>> ELSE first_emirate_in_address(address, 1)

\* U\.?A\.?E\.? and UNITED\s+ARAB\s+EMIRATES
CountryPatterns ==
    <<<<Cls({"U"}, "1"), Cls({"."}, "?"), Cls({"A"}, "1"), Cls({"."}, "?"),
        Cls({"E"}, "1"), Cls({"."}, "?")>>,
      Words(<<<<"U", "N", "I", "T", "E", "D">>, <<"A", "R", "A", "B">>, <<"E", "M", "I", "R", "A", "T", "E", "S">>>>)>>

\* extract_country_from_address(address): 'UAE' or <<>> for None.
extract_country_from_address(address) ==
    IF address = <<>> THEN <<>>
    ELSE IF \E k \in 1..Len(CountryPatterns) :
                Found(<<WordBoundary>> \o CountryPatterns[k] \o <<WordBoundary>>, address, TRUE)
    THEN <<"U", "A", "E">>
    ELSE <<>>

\* The two re.sub of remove_emirate_and_country_from_address for one name X:
\* [, ]\s*X\s*([, -]|$) and then -\s*X\s*([, -]|$), each replaced by \1.
remove_mention(address, X) ==
    LET after == <<Ws("*"), Group(<<<<Cls({",", " ", "-"}, "1")>>, <<EndOfString>>>>)>>
        first == subi(<<Cls({",", " "}, "1"), Ws("*")>> \o X \o after, <<"\\1">>, address)
    IN subi(<<Cls({"-"}, "1"), Ws("*")>> \o X \o after, <<"\\1">>, first)

RECURSIVE remove_mentions(_, _, _)
\* remove_mention for the k-th pattern and the ones after it.
remove_mentions(address, patterns, k) ==
    IF k > Len(patterns) THEN address
    ELSE remove_mentions(remove_mention(address, patterns[k]), patterns, k + 1)

\* remove_emirate_and_country_from_address(address)[0], the cleaned address.
remove_emirate_and_country_from_address(address) ==
    LET a1 == remove_mentions(address,
                  [j \in 1..Len(Emirates) |-> Words(Emirates[j])] \o CountryPatterns, 1)
        a2 == sub(<<Cls({","}, "1"), Ws("*"), Cls({","}, "+")>>, <<",">>, a1)
        a3 == sub(<<Cls({"-"}, "1"), Ws("*"), Cls({"-"}, "+")>>, <<"-">>, a2)
        a4 == sub(<<Ws("+")>>, <<" ">>, a3)
        a5 == sub(<<Cls({","}, "1"), Ws("*"), Cls({"-"}, "1"), Ws("*")>>, <<" ", "-", " ">>, a4)
        a6 == sub(<<Cls({"-"}, "1"), Ws("*"), Cls({","}, "1"), Ws("*")>>, <<" ", "-", " ">>, a5)
        a7 == sub(<<Cls({","}, "1"), Ws("*"), EndOfString>>, <<>>, a6)
        a8 == sub(<<Cls({"-"}, "1"), Ws("*"), EndOfString>>, <<>>, a7)
        a9 == sub(<<Ws("+"), EndOfString>>, <<>>, a8)
    IN IF address = <<>> THEN address ELSE strip(a9)

\* add_emirate_to_address(address, name)
add_emirate_to_address(address, name) ==
    LET emirate_raw == extract_emirate_from_name(name)
        cleaned_address == remove_emirate_and_country_from_address(address)
        found_emirate == extract_emirate_from_address(address)
        found_country == extract_country_from_address(address)
        country == IF found_country # <<>> THEN found_country ELSE <<"U", "A", "E">>
        emirate == IF found_emirate # <<>> THEN found_emirate
                   ELSE IF emirate_raw # <<>> THEN normalize_emirate_name(emirate_raw)
                   ELSE <<>>
        has_al_ain == Found(<<WordBoundary>> \o Words(<<<<"A", "l">>, <<"A", "i", "n">>>>) \o <<WordBoundary>>,
                            cleaned_address, TRUE)
    IN IF address = <<>> \/ strip(address) = <<>>
       THEN IF emirate_raw = <<>> THEN address
            ELSE IF emirate_raw = <<"A", "L", " ", "A", "I", "N">> THEN <<"A", "l", " ", "A", "i", "n", ",", " ", "A", "b", "u", " ", "D", "h", "a", "b", "i", ",", " ", "U", "A", "E">>
            ELSE IF normalize_emirate_name(emirate_raw) # <<>>
            THEN normalize_emirate_name(emirate_raw) \o <<",", " ">> \o <<"U", "A", "E">>
            ELSE address
       ELSE IF found_emirate = <<>> /\ emirate_raw = <<"A", "L", " ", "A", "I", "N">>
       THEN (IF has_al_ain THEN cleaned_address
             ELSE cleaned_address \o <<",", " ">> \o <<"A", "l", " ", "A", "i", "n">>)
            \o <<",", " ">> \o Spelled(Emirates[1]) \o <<",", " ">> \o country
       ELSE IF emirate = <<>> THEN cleaned_address
       ELSE cleaned_address \o <<",", " ">> \o emirate \o <<",", " ">> \o country

\* Addresses: up to MaxTokens pieces, each a locality, a country, a word or a
\* delimiter.
MaxTokens == 4

Addresses ==
    LET tokens == {<<"D", "u", "b", "a", "i">>, <<"x">>, <<" ">>, <<",">>, <<"-">>, <<"(">>, <<"U", "A", "E">>}
    IN {join(list, <<>>) : list \in UNION {[1..n -> tokens] : n \in 0..MaxTokens}}

\* An empty, a blank and a bare address, and longer ones with the other
\* emirates and spellings of the country.
AddressExamples ==
    {<<>>, <<" ">>, <<"x">>,
     <<"N", "e", "a", "r", " ", "D", "U", "B", "A", "I", " ", "M", "a", "l", "l", ",", " ", "a", "b", "u", " ", "d", "h", "a", "b", "i">>,
     <<"x", ",", " ", "A", "b", "u", " ", " ", "D", "h", "a", "b", "i">>,
     <<"x", ",", " ", "U", ".", "A", ".", "E", ".">>,
     <<"x", " ", "U", "n", "i", "t", "e", "d", " ", "A", "r", "a", "b", " ", "E", "m", "i", "r", "a", "t", "e", "s">>,
     <<"x", " ", "a", "l", " ", "a", "i", "n", " ", "s", "t">>,
     <<"x", ",", " ", "R", "a", "s", " ", "A", "l", " ", "K", "h", "a", "i", "m", "a", "h", " ", "-", " ", "U", "A", "E">>,
     <<"y", " ", "-", " ", "U", "m", "m", " ", "A", "l", " ", "Q", "u", "w", "a", "i", "n">>,
     <<"x", " ", "F", "u", "j", "a", "i", "r", "a", "h", "-", "S", "h", "a", "r", "j", "a", "h", ",">>,
     <<"x", ",", " ", "D", "u", "b", "a", "i", ".">>,
     <<"x", ",", ",", " ", "-", " ", "A", "j", "m", "a", "n", " ", "-", "-">>}

\* Provider names, with and without a locality.
Names ==
    {<<"N">>,
     <<"N", " ", "(", "A", "j", "m", "a", "n", ")">>,
     <<"N", " ", "(", "A", "L", " ", "A", "I", "N", ")">>,
     <<"N", " ", "-", " ", "D", "U", "B", "A", "I">>,
     <<"N", " ", "(", "g", "o", "v", "e", "r", "n", "m", "e", "n", "t", "-", "d", "h", "a", ")">>,
     <<"N", " ", "(", "F", "o", "o", " ", "b", "a", "r", ")">>,
     <<"M", "U", "S", "S", "A", "F", "A", "H", "-", "A", "B", "U", "D", "H", "A", "B", "I">>,
     <<"N", " ", "(", "A", "B", "U", " ", "D", "H", "A", "B", "I">>,
     <<"N", " ", "(", "x", ")", " ", "y">>,
     <<"N", "(", "r", "a", "s", " ", "a", "l", " ", "k", "h", "a", "i", "m", "a", "h", ")", " ">>,
     <<"N", " ", "(", "a", "b", "u", "-", "d", "h", "a", "b", "i", ")">>,
     <<"N", " ", "(", " ", ")">>,
     <<>>}

InitLocality ==
    /\ InitNoRun
    /\ \/ \E address \in Addresses :
              calc = Call("add_emirate_to_address", <<address, <<"N">>>>)
       \/ \E address \in AddressExamples, name \in Names :
              calc = Call("add_emirate_to_address", <<address, name>>)

\* address = add_emirate_to_address(address, provider_name)
AddEmirateToAddress ==
    /\ calc.op = "add_emirate_to_address"
    /\ ~ calc.returned
    /\ calc' = [calc EXCEPT !.returned = TRUE,
                            !.out = Str(add_emirate_to_address(calc.args[1], calc.args[2]))]
    /\ UNCHANGED pipeVars

NextLocality == AddEmirateToAddress

SpecLocality == InitLocality /\ [][NextLocality]_vars

\* ------------------------------------------ stage 1: the conversion

\* int(s) of a str: blanks around it stripped, an optional sign, then digits,
\* single underscores allowed between digits; ValueError otherwise.
int(s) ==
    LET text == strip(s)
        signed == text # <<>> /\ text[1] \in {"+", "-"}
        body == IF signed THEN Tail(text) ELSE text
        digits == SelectSeq(body, LAMBDA c : c # "_")
        valid == /\ body # <<>>
                 /\ \A j \in 1..Len(body) : body[j] \in Digits \cup {"_"}
                 /\ body[1] # "_" /\ body[Len(body)] # "_"
                 /\ \A j \in 1..(Len(body) - 1) : ~ (body[j] = "_" /\ body[j + 1] = "_")
        DigitValue(c) == IndexOf(c, <<"0", "1", "2", "3", "4", "5", "6", "7", "8", "9">>) - 1
        Value[k \in 0..Len(digits)] ==
            IF k = 0 THEN 0 ELSE 10 * Value[k - 1] + DigitValue(digits[k])
    IN IF ~ valid THEN [exc |-> "ValueError", value |-> 0]
       ELSE [exc |-> "", value |-> IF text[1] = "-" THEN 0 - Value[Len(digits)]
                                   ELSE Value[Len(digits)]]

\* The body of the loop of convert_csv_to_json for one row, phone being
\* normalize_phone of the row's column and provider_id the int() of its
\* number: the exception raised, or whether the row is skipped, or the result.
converted(provider_name, address, phone, provider_id) ==
    IF phone.exc # "" THEN [exc |-> phone.exc, skipped |-> FALSE, result |-> <<>>]
    ELSE IF provider_id.exc # "" THEN [exc |-> "", skipped |-> TRUE, result |-> <<>>]
    ELSE [exc |-> "", skipped |-> FALSE,
          result |-> [id |-> provider_id.value,
                      name |-> provider_name,
                      address |-> add_emirate_to_address(address, provider_name),
                      phone |-> phone.str]]

convert_row(row) ==
    converted(clean_text(row["PROVIDER NAME"]), clean_text(row["ADDRESS"]),
              normalize_phone(row["Phone No"]), int(strip(row["PROVIDER NUMBER"])))

\* CSV files of up to MaxRows rows.
MaxRows == 2

ProviderNumbers ==
    {<<"7">>,
     <<"0">>,
     <<"-", "5">>,
     <<"+", "3">>,
     <<"x">>,
     <<>>,
     <<"1", ".", "5">>,
     <<" ", "1", "2", " ">>,
     <<"0", "0", "7">>,
     <<"1", "_", "0">>,
     <<"4", "-">>,
     <<"7", " ", "7">>}

CsvRow(k, number, phone) ==
    [k2 \in {"PROVIDER NUMBER", "PROVIDER NAME", "ADDRESS", "Phone No"} |->
        IF k2 = "PROVIDER NUMBER" THEN number
        ELSE IF k2 = "PROVIDER NAME" THEN <<<<"N", " ", "(", "A", "j", "m", "a", "n", ")">>, <<"E", "y", "e", " ", " ", "C", "l", "i", "n", "i", "c">>>>[k]
        ELSE IF k2 = "ADDRESS" THEN <<<<"x", " ", ",">>, <<"y", ",", " ", "D", "u", "b", "a", "i">>>>[k]
        ELSE phone]

CsvFiles ==
    LET phones == {<<"0", "4", "-", "2", "2", "2", "3", "3", "3", "3">>, <<"9", "7", "1">>}
    IN UNION {{[k \in 1..n |-> CsvRow(k, choice[k][1], choice[k][2])] :
                  choice \in [1..n -> ProviderNumbers \X phones]} : n \in 0..MaxRows}

\* convert_csv_to_json before its loop: results is empty, json_file not
\* written.
InitConvert ==
    /\ InitNoRun
    /\ \E rows \in CsvFiles :
           calc = [op |-> "convert_csv_to_json", args |-> <<rows>>, returned |-> FALSE,
                   out |-> PyNone, previous |-> <<>>, row |-> 1, results |-> <<>>,
                   written |-> FALSE, json |-> <<>>]

\* One row of the reader: a result appended, the row skipped, or the
\* conversion ended by an exception.
ConvertRow ==
    /\ calc.op = "convert_csv_to_json"
    /\ ~ calc.returned
    /\ calc.row <= Len(calc.args[1])
    /\ \E c \in {convert_row(calc.args[1][calc.row])} :
           calc' = IF c.exc # "" THEN [calc EXCEPT !.returned = TRUE, !.out = Raised(c.exc)]
                   ELSE IF c.skipped THEN [calc EXCEPT !.row = @ + 1]
                   ELSE [calc EXCEPT !.row = @ + 1, !.results = Append(@, c.result)]
    /\ UNCHANGED pipeVars

\* json.dump(results, f) after the last row.
WriteJson ==
    /\ calc.op = "convert_csv_to_json"
    /\ ~ calc.returned
    /\ calc.row > Len(calc.args[1])
    /\ calc' = [calc EXCEPT !.returned = TRUE, !.written = TRUE, !.json = calc.results]
    /\ UNCHANGED pipeVars

NextConvert ==
    \/ ConvertRow
    \/ WriteJson

SpecConvert == InitConvert /\ [][NextConvert]_vars

\* ------------------------------------------ stage 2: the API key

\* What os.getenv gives for the provider's key: None, '' or a key.
ApiKeys == {PyNone, Str(<<>>), Str(<<"k">>)}

\* The script starting its run whatever the key.
HasKey_unchecked(key) == TRUE

\* The negation of "if not API_KEY".
HasKey(key) == Truthy(key)

\* A script is started: API_KEY = os.getenv(...) at the top of the module.
\* Nothing of an earlier process is in memory.
GetEnv(p, key) ==
    /\ pc \in {"idle", "done", "crashed"}
    /\ calc' = [Call("os.getenv", <<p>>) EXCEPT !.out = key]
    /\ located_clinics' = <<>>
    /\ idx' = 0
    /\ total_requests' = 0
    /\ runLooked' = <<>>
    /\ eligible0' = <<>>
    /\ UNCHANGED <<clinics, file, fileExists, pc, provider, max_requests, delayed, quota,
                   origin, firstFile, runs, issued, resets, startFile, target, result,
                   crashedEver, last, prev>>

\* if not API_KEY: raise ValueError(...), which ends the process.
RaiseValueError ==
    /\ calc.op = "os.getenv"
    /\ ~ calc.returned
    /\ ~ HasKey(calc.out)
    /\ calc' = [calc EXCEPT !.returned = TRUE]
    /\ pc' = "crashed"
    /\ UNCHANGED <<clinics, file, fileExists, provider, max_requests, located_clinics,
                   idx, total_requests, delayed, quota, origin, firstFile, runs, issued, resets,
                   runLooked, eligible0, startFile, target, result, crashedEver,
                   last, prev>>

\* The module body went past the key: main() runs.
Main(cap) ==
    /\ calc.op = "os.getenv"
    /\ ~ calc.returned
    /\ HasKey(calc.out)
    /\ StartRun(calc.args[1], cap)

\* One input record; the state file absent or a copy of the input.
InitKey ==
    /\ clinics = InputList(1)
    /\ quota = Unlimited
    /\ InitFile({clinics})
    /\ InitRun
    /\ calc = NoCalc

NextKey ==
    \/ \E p \in Providers, key \in ApiKeys : GetEnv(p, key)
    \/ RaiseValueError
    \/ \E cap \in CapChoices : Main(cap)
    \/ RunStep
    \/ Crash

SpecKey == InitKey /\ [][NextKey]_vars

\* ------------------------------------------ stage 3: the dataset

\* clean_name(name): re.sub(r'\s*\([^)]+\)\s*$', '', name)
clean_name(name) ==
    sub(<<Ws("*"), Cls({"("}, "1"), Not({")"}, "+"), Cls({")"}, "1"), Ws("*"), EndOfString>>,
        <<>>, name)

\* re.search(r'\bword\b', name_lower) for one of the words.
HasWord(name_lower, words) ==
    \E w \in words : Found(<<WordBoundary>> \o Lit(w) \o <<WordBoundary>>, name_lower, FALSE)

\* extract_tags with hospital and clinic added also after pharmacy.
extract_tags_no_suppression(name) ==
    LET name_lower == lower(name)
        Tag(found, tag) == IF found THEN <<tag>> ELSE <<>>
    IN IF name = <<>> THEN <<>>
       ELSE Tag(HasWord(name_lower, {<<"p", "h", "a", "r", "m", "a", "c", "y">>}), "pharmacy")
            \o Tag(HasWord(name_lower, {<<"h", "o", "s", "p", "i", "t", "a", "l">>, <<"h", "o", "s", "p", "i", "t", "a", "l", "s">>}), "hospital")
            \o Tag(HasWord(name_lower, {<<"c", "l", "i", "n", "i", "c">>, <<"m", "e", "d", "i", "c", "a", "l", " ", "c", "e", "n", "t", "e", "r">>}), "clinic")
            \o Tag(HasWord(name_lower, {<<"e", "y", "e">>}), "optical")
            \o Tag(HasWord(name_lower, {<<"d", "e", "n", "t", "a", "l">>}), "dental")
            \o Tag(HasWord(name_lower, {<<"l", "a", "b">>}), "lab")

\* extract_tags(name): the list of tags, <<>> for None.
extract_tags(name) ==
    LET name_lower == lower(name)
        has_pharmacy == HasWord(name_lower, {<<"p", "h", "a", "r", "m", "a", "c", "y">>})
        Tag(found, tag) == IF found THEN <<tag>> ELSE <<>>
    IN IF name = <<>> THEN <<>>
       ELSE Tag(has_pharmacy, "pharmacy")
            \o Tag(~ has_pharmacy /\ HasWord(name_lower, {<<"h", "o", "s", "p", "i", "t", "a", "l">>, <<"h", "o", "s", "p", "i", "t", "a", "l", "s">>}), "hospital")
            \o Tag(~ has_pharmacy /\ HasWord(name_lower,
                       {<<"c", "l", "i", "n", "i", "c">>, <<"c", "l", "i", "n", "i", "c", "s">>, <<"p", "o", "l", "y", "c", "l", "i", "n", "i", "c">>,
                        <<"m", "e", "d", "i", "c", "a", "l", " ", "c", "e", "n", "t", "e", "r">>,
                        <<"m", "e", "d", "i", "c", "a", "l", " ", "c", "e", "n", "t", "r", "e">>}), "clinic")
            \o Tag(HasWord(name_lower, {<<"o", "p", "t", "i", "c", "a", "l">>, <<"o", "p", "t", "i", "c", "s">>, <<"e", "y", "e">>}), "optical")
            \o Tag(HasWord(name_lower, {<<"d", "e", "n", "t", "a", "l">>}), "dental")
            \o Tag(HasWord(name_lower,
                       {<<"l", "a", "b", "o", "r", "a", "t", "o", "r", "y">>,
                        <<"l", "a", "b", "o", "r", "a", "t", "o", "r", "i", "e", "s">>,
                        <<"d", "i", "a", "g", "n", "o", "s", "t", "i", "c">>, <<"d", "i", "a", "g", "n", "o", "s", "t", "i", "c", "s">>,
                        <<"l", "a", "b">>}), "lab")

\* get_coordinates without the fallback providers.
get_coordinates_primary_only(record) ==
    LET Usable(p) == p \in DOMAIN record /\ record[p] # <<>> /\ Len(record[p]) = 2
    IN IF Usable(LOCATIONIQ) THEN record[LOCATIONIQ] ELSE <<>>

\* get_coordinates(record): locationiq, then google, then opencage; an entry
\* counts when it is a list of two elements; <<>> for None.
get_coordinates(record) ==
    LET Usable(p) == p \in DOMAIN record /\ record[p] # <<>> /\ Len(record[p]) = 2
    IN IF Usable(LOCATIONIQ) THEN record[LOCATIONIQ]
       ELSE IF Usable(GOOGLE) THEN record[GOOGLE]
       ELSE IF Usable(OPENCAGE) THEN record[OPENCAGE]
       ELSE <<>>

\* build_address(address, phone)
build_address(address, phone) ==
    IF phone # <<>> THEN address \o <<",", " ">> \o phone ELSE address

\* process_record(record): None, or the clinic dict, which has no tags key
\* when no tag was found.
process_record(record) ==
    LET coords == get_coordinates(record)
        tags == extract_tags(record.name)
        clinic == [name |-> clean_name(record.name),
                   address |-> build_address(record.address, record.phone),
                   lat |-> coords[1],
                   lon |-> coords[2]]
    IN IF coords = <<>> THEN [none |-> TRUE, dict |-> <<>>]
       ELSE [none |-> FALSE,
             dict |-> IF tags # <<>> THEN Put(clinic, "tags", tags) ELSE clinic]

\* Reconciled lists hold up to MaxSource records.
MaxSource == 3

\* The k-th record of a reconciled list, without its provider entries.
SourceRecord(k) ==
    [id |-> k,
     name |-> <<<<"P", "h", "a", "r", "m", "a", "c", "y", " ", "(", "D", "u", "b", "a", "i", ")">>,
                <<"E", "y", "e", " ", "C", "l", "i", "n", "i", "c">>,
                <<"L", "a", "b", " ", "(", "A", "j", "m", "a", "n", ")", " ">>>>[k],
     address |-> <<<<"x", ",", " ", "D", "u", "b", "a", "i">>, <<"y">>, <<"z">>>>[k],
     phone |-> <<<<"+", "9", "7", "1", " ", "4", "2", "2", "2", "3", "3", "3", "3">>, <<>>, <<"+", "9", "7", "1", " ", "5", "0", "1", "2", "3", "4", "5", "6", "7">>>>[k]]

\* The entry a provider may hold after the three passes: a pair of its own,
\* [], or nothing (key absent).
ProviderPair ==
    [p \in Providers |->
        IF p = LOCATIONIQ THEN <<2445, 5437>>
        ELSE IF p = OPENCAGE THEN <<2520, 5527>>
        ELSE <<2410, 5430>>]

\* Lists shorter than MaxSource with any entries, lists of MaxSource records
\* with every provider key present, and one list with a hand-edited entry.
SourceLists ==
    LET entries == UNION {[S -> {"[]", "pair"}] : S \in SUBSET Providers}
        full == [Providers -> {"[]", "pair"}]
        Entries(e) == [p \in DOMAIN e |-> IF e[p] = "pair" THEN ProviderPair[p] ELSE <<>>]
        Lists(n, of) == {[k \in 1..n |-> Seeded(SourceRecord(k), Entries(choice[k]))] :
                            choice \in [1..n -> of]}
        hand_edited == <<Seeded(SourceRecord(1),
                                [locationiq |-> <<2445>>, google |-> ProviderPair[GOOGLE]])>>
    IN {hand_edited} \cup Lists(MaxSource, full) \cup
       UNION {Lists(n, entries) : n \in 0..(MaxSource - 1)}

\* main() of 3_build_clinics.py before its loop: source_data is loaded,
\* clinics is empty; kept holds the positions of the records emitted.
InitBuild ==
    /\ InitNoRun
    /\ calc \in {[op |-> "main", args |-> <<>>, returned |-> FALSE, out |-> PyNone,
                  previous |-> <<>>, source_data |-> source_data, record |-> 1,
                  clinics |-> <<>>, skipped |-> 0, kept |-> <<>>, docs |-> <<>>] :
                    source_data \in SourceLists}

\* The loop body of main(): one record processed, its clinic appended or the
\* record skipped.
ProcessRecord ==
    /\ calc.op = "main"
    /\ ~ calc.returned
    /\ calc.record <= Len(calc.source_data)
    /\ LET clinic == process_record(calc.source_data[calc.record])
       IN calc' = IF ~ clinic.none
                  THEN [calc EXCEPT !.record = @ + 1,
                                    !.clinics = Append(@, clinic.dict),
                                    !.kept = Append(@, calc.record)]
                  ELSE [calc EXCEPT !.record = @ + 1, !.skipped = @ + 1]
    /\ UNCHANGED pipeVars

\* The end of main(): docs/clinics.js is written.
WriteDataset ==
    /\ calc.op = "main"
    /\ ~ calc.returned
    /\ calc.record > Len(calc.source_data)
    /\ calc' = [calc EXCEPT !.returned = TRUE, !.docs = calc.clinics]
    /\ UNCHANGED pipeVars

NextBuild ==
    \/ ProcessRecord
    \/ WriteDataset

SpecBuild == InitBuild /\ [][NextBuild]_vars

\* The pipeline from an absent state file: no network-amber-located.json
\* yet, the dataset builder not started.
InitEndToEnd ==
    /\ clinics = InputList(NumRecords)
    /\ quota = Unlimited
    /\ origin = "absent"
    /\ fileExists = FALSE
    /\ file = <<>>
    /\ firstFile = <<>>
    /\ InitRun
    /\ calc = NoCalc

\* A pass of any provider, one more than MaxRuns to a behaviour, so that
\* each of the three scripts can have run.
ProviderPass(p, cap) ==
    /\ runs < MaxRuns + 1
    /\ Start(p, cap)

\* main() of 3_build_clinics.py up to its loop, run on the state file as it
\* is: open raises FileNotFoundError when no pass has written the file.
LoadSource ==
    /\ calc = NoCalc
    /\ calc' = IF fileExists
               THEN [op |-> "main", args |-> <<>>, returned |-> FALSE, out |-> PyNone,
                     previous |-> <<>>, source_data |-> file, record |-> 1,
                     clinics |-> <<>>, skipped |-> 0, kept |-> <<>>, docs |-> <<>>]
               ELSE [op |-> "main", args |-> <<>>, returned |-> TRUE,
                     out |-> Raised("FileNotFoundError"),
                     previous |-> <<>>, source_data |-> <<>>, record |-> 1,
                     clinics |-> <<>>, skipped |-> 0, kept |-> <<>>, docs |-> <<>>]
    /\ UNCHANGED pipeVars

\* The provider passes, crashes included, and one run of the dataset builder
\* at any moment.
NextEndToEnd ==
    \/ \E p \in Providers, cap \in CapChoices : ProviderPass(p, cap)
    \/ RunStep
    \/ Crash
    \/ LoadSource
    \/ ProcessRecord
    \/ WriteDataset

SpecEndToEnd == InitEndToEnd /\ [][NextEndToEnd]_vars

\* ------------------------------------------ stage 3: tags

\* Names of up to MaxWords words, keywords of the tags among them, joined by
\* a blank, by a hyphen or by nothing; and the empty name.
MaxWords == 3

TagNames ==
    LET words == {<<"P", "h", "a", "r", "m", "a", "c", "y">>,
                  <<"h", "o", "s", "p", "i", "t", "a", "l">>,
                  <<"C", "L", "I", "N", "I", "C">>,
                  <<"e", "y", "e">>,
                  <<"d", "e", "n", "t", "a", "l">>,
                  <<"l", "a", "b">>,
                  <<"m", "e", "d", "i", "c", "a", "l">>,
                  <<"c", "e", "n", "t", "e", "r">>,
                  <<"x">>}
        separators == {<<" ">>, <<"-">>, <<>>}
    IN {<<>>} \cup
       {join(list, sep) : list \in UNION {[1..n -> words] : n \in 1..MaxWords},
                          sep \in separators}

\* A record of the reconciled list with a locationiq pair and the given name.
TagRecord(name) ==
    Seeded([SourceRecord(1) EXCEPT !.name = name], [locationiq |-> ProviderPair[LOCATIONIQ]])

InitTags ==
    /\ InitNoRun
    /\ \E name \in TagNames : calc = Call("process_record", <<TagRecord(name)>>)

\* clinic = process_record(record), for a record that has coordinates.
ProcessTagged ==
    /\ calc.op = "process_record"
    /\ ~ calc.returned
    /\ calc' = [calc EXCEPT !.returned = TRUE, !.out = process_record(calc.args[1])]
    /\ UNCHANGED pipeVars

NextTags == ProcessTagged

SpecTags == InitTags /\ [][NextTags]_vars

\* ---------------------------------------------------------- properties

\* A non-empty entry that is a pair inside the box.
PairInBox(e) ==
    /\ Len(e) = 2
    /\ LatMin <= e[1] /\ e[1] <= LatMax
    /\ LngMin <= e[2] /\ e[2] <= LngMax

\* The ids of the records this run has looked up.
LookedIds == {located_clinics[j].id : j \in SeqToSet(runLooked)}

C2_EmptyOnlyAfterAttempt ==
    origin = "absent" =>
        \A j \in 1..Len(file), p \in Providers :
            /\ (p \in DOMAIN file[j] /\ file[j][p] = <<>>) =>
                  (issued[p][file[j].id] > 0 \/ <<p, file[j].id>> \in resets)
            /\ issued[p][file[j].id] = 0 => p \notin DOMAIN file[j]

\* C3: starting from an absent state file, one uncapped LocationIQ run issues
\* exactly one lookup for every record of the input list.
C3_PrimaryLooksUpEveryRecord ==
    (/\ origin = "absent"
     /\ runs = 1
     /\ provider = LOCATIONIQ
     /\ max_requests = NoMaxRequests
     /\ pc = "done") =>
        \A id \in IdsOf(clinics) : issued[LOCATIONIQ][id] = 1

\* C4: a fallback provider (OpenCage, Google) issues a lookup for a record
\* only if, at that moment, the record's locationiq entry is present and empty
\* and the fallback provider's own key is absent.
C4_FallbackOnlyAfterPrimaryFailed ==
    (pc = "counted" /\ provider \in Fallbacks) =>
        /\ LOCATIONIQ \in DOMAIN target
        /\ target[LOCATIONIQ] = <<>>
        /\ provider \notin DOMAIN target

\* The run that just ended and the one before it were uncapped, completed runs
\* of the same provider.
SameProviderAgain ==
    /\ pc = "done"
    /\ prev.outcome = "done"
    /\ prev.provider = provider
    /\ prev.max_requests = NoMaxRequests
    /\ max_requests = NoMaxRequests

\* C5: after an uncapped pass of a provider has completed, the same provider's
\* pass run again without a cap issues no lookup and writes a state file
\* identical to the one the first run left.
C5_SecondPassIdempotent ==
    SameProviderAgain => (total_requests = 0 /\ fileExists /\ file = prev.file)

C5_Witness ==
    /\ SameProviderAgain
    /\ prev.requests = NumRecords
    /\ \E j \in 1..Len(file) :
          provider \in DOMAIN file[j] /\ file[j][provider] = <<2445, 5437>>
    /\ \E j \in 1..Len(file) :
          provider \in DOMAIN file[j] /\ file[j][provider] = <<>>

\* C6: across completed (non-crashing) runs, a provider looks up each record at
\* most once, and never a record that already holds an entry of that provider,
\* be it a pair, a failure or a pair reset to empty by revalidation.
C6_NoRetryOfAttempted ==
    ~ crashedEver =>
        /\ \A p \in Providers, id \in IdsOf(clinics) : issued[p][id] <= 1
        /\ pc = "counted" => provider \notin DOMAIN target

C6_Witness ==
    /\ ~ crashedEver
    /\ pc = "done"
    /\ runs = 2
    /\ prev.provider = provider
    /\ prev.requests > 0
    /\ total_requests = 0
    /\ \E j \in 1..Len(file) :
          /\ provider \in DOMAIN file[j]
          /\ file[j][provider] = <<>>
          /\ issued[provider][file[j].id] = 1
    /\ \E j \in 1..Len(file) :
          /\ <<provider, file[j].id>> \in resets
          /\ file[j][provider] = <<>>
          /\ issued[provider][file[j].id] = 0

\* The number of lookups a run had completed since its last file write when it
\* crashed: the requests past the last multiple of ten, or all ten when the
\* crash fell between the tenth lookup and its checkpoint.
SinceLastWrite(run) ==
    IF run.at = "counted" /\ run.requests % CheckpointEvery = 0
    THEN CheckpointEvery
    ELSE run.requests % CheckpointEvery

\* The run that just ended follows a crashed run of the same provider.
AfterCrashOfSameProvider ==
    /\ pc = "done"
    /\ prev.outcome = "crashed"
    /\ prev.provider = provider

\* What C7 says of the run after a crash: it looks up exactly the records whose
\* results were lost and those never reached (a capped run: only such records).
NextRunRedoesLost ==
    AfterCrashOfSameProvider =>
        IF max_requests = NoMaxRequests
        THEN LookedIds = prev.expect
        ELSE LookedIds \subseteq prev.expect

\* What C7 says of the state file at a crash: it is the pre-run file until the
\* first checkpoint was written.
FileAtCrash ==
    (pc = "crashed" /\ (last.requests < CheckpointEvery
                          \/ (last.requests = CheckpointEvery /\ last.at = "counted"))) =>
        file = startFile

Running == {"loop", "counted", "final"}

\* The state file equals the in-memory list when a run has ended.
SavedAtEnd == pc = "done" => (fileExists /\ file = located_clinics)

\* The loop position only moves forward, one clinic at a time, and stops
\* within one position past the end of the list.
OnePass ==
    (pc \in Running /\ pc' \in Running \cup {"done"}) =>
        /\ idx' \in {idx, idx + 1}
        /\ idx' <= Len(located_clinics') + 1
        /\ Len(located_clinics') = Len(located_clinics)

\* C8: every provider run that does not crash terminates after one pass over
\* the record list, and ends with a save of the full state: on normal
\* completion and on early stop at the request cap alike, the state file equals
\* the in-memory list at the end of the run.
C8_RunEndsWithFullSave ==
    /\ []SavedAtEnd
    /\ [][OnePass]_vars
    /\ [](pc \in Running => <>(pc \in {"done", "crashed"}))

C8_Witness ==
    /\ pc = "done"
    /\ CapReached
    /\ idx <= Len(located_clinics)
    /\ total_requests = CheckpointEvery + 1
    /\ located_clinics[runLooked[total_requests]][provider] = <<2445, 5437>>
    /\ file[runLooked[total_requests]][provider] = <<2445, 5437>>

\* C9: with a request cap c >= 0 a run issues at most c lookups, and the
\* lookups go to the eligible records in their order in the record list.
C9_CapBoundsLookups ==
    /\ max_requests # NoMaxRequests =>
          (total_requests <= max_requests /\ Len(runLooked) <= max_requests)
    /\ pc \in Running \cup {"done"} =>
          /\ Len(runLooked) = total_requests
          /\ Len(runLooked) <= Len(eligible0)
          /\ runLooked = SubSeq(eligible0, 1, Len(runLooked))

C9_Witness ==
    /\ pc = "done"
    /\ max_requests = 1
    /\ total_requests = 1
    /\ eligible0 = <<1, 2>>
    /\ runLooked = <<1>>
    /\ idx = 2

\* The record as it was before the run: in the state file, or else in the
\* input list.
Before(id) ==
    IF id \in IdsOf(startFile) THEN ById(startFile, id) ELSE ById(clinics, id)

\* C10: a provider's pass adds or overwrites exactly that provider's entry:
\* for every record, the id, name, address, phone and the entries (present or
\* absent) of the other two providers are the same after the pass as before.
C10_PassTouchesOwnEntryOnly ==
    pc = "done" =>
        \A j \in 1..Len(file) :
            \A k \in (DOMAIN file[j] \cup DOMAIN Before(file[j].id)) \ {provider} :
                /\ k \in DOMAIN file[j]
                /\ k \in DOMAIN Before(file[j].id)
                /\ file[j][k] = Before(file[j].id)[k]

\* A response the run treats as a soft failure: an exception of requests.get,
\* a status other than 200, a body that does not parse or holds no result, or
\* coordinates outside the box.
SoftFailure(resp) ==
    \/ resp.raised # ""
    \/ resp.status_code # 200
    \/ resp.body \in {"malformed", "empty"}
    \/ ~ is_valid_uae_coordinates(resp.lat, resp.lng)

\* C11: a soft failure of a lookup (timeout, connection error, status other
\* than 200, malformed or empty body, coordinates outside the box) does not
\* abort the run: the record's entry for the provider is [], the request is
\* counted, the loop goes on, and a run without a cap that reaches its final
\* save has looked up every record that was eligible, in order.
C11_SoftFailureDoesNotAbort ==
    /\ pc = "counted" =>
          \A resp \in ServiceResponses :
              (SoftFailure(resp) /\ geocode(resp) = result) =>
                  /\ located_clinics[idx][provider] = <<>>
                  /\ total_requests = Len(runLooked)
                  /\ runLooked[total_requests] = idx
                  /\ ENABLED AfterRequest
    /\ (pc \in {"final", "done"} /\ max_requests = NoMaxRequests) =>
          runLooked = eligible0

\* The second lookup of a run fails after the first one failed.
C11_Witness ==
    /\ pc = "counted"
    /\ total_requests = 2
    /\ result = GeocodeNone
    /\ located_clinics[runLooked[1]][provider] = <<>>
    /\ located_clinics[runLooked[2]][provider] = <<>>

\* C12: in every provider pass a delay (time.sleep) lies between any two
\* consecutive lookups of a run.
C12_DelayBetweenLookups ==
    [][(pc = "loop" /\ pc' = "counted" /\ total_requests >= 1) => delayed]_vars

\* The call under evaluation has returned.
Returned(op) == calc.op = op /\ calc.returned

\* C15: phone normalization is total: normalize_single_phone returns a
\* canonical number or None and normalize_phone returns a str; neither
\* raises, whatever the input (also "971", "+971", "00971").
C15_PhoneNormalizationTotal ==
    /\ Returned("normalize_single_phone") =>
          (calc.out.exc = "" /\ (calc.out.none \/ startswith(calc.out.str, <<"+", "9", "7", "1", " ">>)))
    /\ Returned("normalize_phone") => (calc.out.exc = "" /\ ~ calc.out.none)

\* s is made of exactly seven decimal digits.
SevenDigits(s) == Len(s) = 7 /\ \A j \in 1..7 : s[j] \in Digits

\* C16: for every bare 7-digit number and inferred area code a in {2, 4},
\* normalize_single_phone returns "+971 " + a + the seven digits.
C16_BareSevenDigitsTakeInferredCode ==
    (/\ Returned("normalize_single_phone")
     /\ SevenDigits(calc.args[1])
     /\ calc.args[2] \in {<<"2">>, <<"4">>}) =>
        calc.out = Str(<<"+", "9", "7", "1", " ">> \o calc.args[2] \o calc.args[1])

\* The numbers of a result of normalize_phone.
NumbersOf(str) ==
    IF str = <<>> THEN <<>>
    ELSE LET pieces == split(str, {","}) IN [j \in 1..Len(pieces) |-> strip(pieces[j])]

\* C17: the result of normalize_phone holds no number twice, also when the
\* field holds the same number twice, in the same or in different formats.
C17_PhoneFieldDeduplicated ==
    (Returned("normalize_phone") /\ calc.out.exc = "") =>
        LET numbers == NumbersOf(calc.out.str) IN
        \A j, k \in 1..Len(numbers) : j # k => numbers[j] # numbers[k]

\* The first entry of the field that gives this number, on its own or with
\* an inferred area code (0 when no entry does).
FirstSource(phones, number) ==
    LET from == {j \in 1..Len(phones) :
                    \E a \in InferredCodes :
                        normalize_single_phone(phones[j], a) = Str(number)}
    IN IF from = {} THEN 0 ELSE CHOOSE j \in from : \A k \in from : j <= k

\* C18: the numbers of the result of normalize_phone come in the order of
\* the entries of the field they were made from, also when an entry that
\* normalizes only with the inferred area code precedes one that normalizes
\* on its own.
C18_PhoneFieldOrderPreserved ==
    (Returned("normalize_phone") /\ calc.out.exc = "") =>
        LET numbers == NumbersOf(calc.out.str)
            phones == split_phones(calc.args[1])
        IN \A j, k \in 1..Len(numbers) :
               j < k => FirstSource(phones, numbers[j]) <= FirstSource(phones, numbers[k])

\* C19: clean_text is idempotent: cleaning a cleaned text gives the same
\* text, clean_text(clean_text(x)) = clean_text(x).
C19_CleanTextIdempotent ==
    (Returned("clean_text") /\ calc.previous # <<>>) => calc.out.str = calc.args[1]

\* How many times the text occurs in s, letter case aside.
Occurrences(text, s) ==
    Cardinality({j \in 1..Len(s) :
                    /\ j + Len(text) - 1 <= Len(s)
                    /\ upper(SubSeq(s, j, j + Len(text) - 1)) = upper(text)})

\* s.endswith(suffix)
endswith(s, suffix) ==
    Len(s) >= Len(suffix) /\ SubSeq(s, Len(s) - Len(suffix) + 1, Len(s)) = suffix

\* C20: for a non-empty address that mentions an emirate (as in "- Dubai" or
\* ", Dubai"), add_emirate_to_address returns an address that ends in
\* ", <Emirate>, UAE" and holds the emirate's name exactly once, wherever the
\* mentions stood in the address.
C20_LocalityOnceAtEnd ==
    LET address == calc.args[1]
        emirate == extract_emirate_from_address(address)
    IN (/\ Returned("add_emirate_to_address")
        /\ strip(address) # <<>>
        /\ emirate # <<>>) =>
           /\ endswith(calc.out.str, <<",", " ">> \o emirate \o <<",", " ", "U", "A", "E">>)
           /\ Occurrences(emirate, calc.out.str) = 1

\* The record holds a non-empty coordinate pair under the provider.
HasPair(record, p) == p \in DOMAIN record /\ Len(record[p]) = 2

\* The providers whose pair a record holds.
PairsOf(record) == {p \in Providers : HasPair(record, p)}

\* C13: the dataset builder selects by the attempt order locationiq,
\* opencage, google: every emitted record carries the pair of the first
\* provider in that order that holds one (the opencage pair for a record
\* with no locationiq pair and both an opencage and a google pair).
C13_SelectionFollowsAttemptOrder ==
    Returned("main") =>
        \A j \in 1..Len(calc.docs) :
            LET record == calc.source_data[calc.kept[j]]
                first == IF HasPair(record, LOCATIONIQ) THEN LOCATIONIQ
                         ELSE IF HasPair(record, OPENCAGE) THEN OPENCAGE
                         ELSE GOOGLE
            IN <<calc.docs[j].lat, calc.docs[j].lon>> = record[first]

ContainsWord(text, w) ==
    \E j \in 1..(Len(text) - Len(w) + 1) :
        /\ lower(SubSeq(text, j, j + Len(w) - 1)) = w
        /\ j = 1 \/ text[j - 1] \notin WordChars
        /\ j + Len(w) > Len(text) \/ text[j + Len(w)] \notin WordChars

\* The keywords of each tag, and the tags in their fixed order.
TagKeywords ==
    [pharmacy |-> {<<"p", "h", "a", "r", "m", "a", "c", "y">>},
     hospital |-> {<<"h", "o", "s", "p", "i", "t", "a", "l">>, <<"h", "o", "s", "p", "i", "t", "a", "l", "s">>},
     clinic |-> {<<"c", "l", "i", "n", "i", "c">>, <<"c", "l", "i", "n", "i", "c", "s">>, <<"p", "o", "l", "y", "c", "l", "i", "n", "i", "c">>, <<"m", "e", "d", "i", "c", "a", "l", " ", "c", "e", "n", "t", "e", "r">>, <<"m", "e", "d", "i", "c", "a", "l", " ", "c", "e", "n", "t", "r", "e">>},
     optical |-> {<<"o", "p", "t", "i", "c", "a", "l">>, <<"o", "p", "t", "i", "c", "s">>, <<"e", "y", "e">>},
     dental |-> {<<"d", "e", "n", "t", "a", "l">>},
     lab |-> {<<"l", "a", "b", "o", "r", "a", "t", "o", "r", "y">>, <<"l", "a", "b", "o", "r", "a", "t", "o", "r", "i", "e", "s">>, <<"d", "i", "a", "g", "n", "o", "s", "t", "i", "c">>, <<"d", "i", "a", "g", "n", "o", "s", "t", "i", "c", "s">>, <<"l", "a", "b">>}]

TagOrder == <<"pharmacy", "hospital", "clinic", "optical", "dental", "lab">>

\* The name holds a keyword of the tag.
HoldsKeyword(name, tag) == \E w \in TagKeywords[tag] : ContainsWord(name, w)

\* C21: a name with the word pharmacy is tagged pharmacy and neither
\* hospital nor clinic; optical, dental and lab are each present exactly when
\* the name holds one of their keywords; the tags follow the order pharmacy,
\* hospital, clinic, optical, dental, lab; and the emitted record has no tags
\* key when no keyword matches, and never an empty list of tags.
C21_TagsOfName ==
    Returned("process_record") =>
        LET name == calc.args[1].name
            dict == calc.out.dict
            tags == IF "tags" \in DOMAIN dict THEN dict["tags"] ELSE <<>>
            Tagged(tag) == tag \in SeqToSet(tags)
        IN /\ ~ calc.out.none
           /\ "tags" \in DOMAIN dict => tags # <<>>
           /\ HoldsKeyword(name, "pharmacy") =>
                 (Tagged("pharmacy") /\ ~ Tagged("hospital") /\ ~ Tagged("clinic"))
           /\ \A tag \in {"optical", "dental", "lab"} : Tagged(tag) <=> HoldsKeyword(name, tag)
           /\ \A j \in 1..Len(tags) :
                 \E k \in 1..Len(TagOrder) :
                    /\ tags[j] = TagOrder[k]
                    /\ \A i \in 1..(j - 1) : \E h \in 1..(k - 1) : tags[i] = TagOrder[h]
           /\ (\A tag \in DOMAIN TagKeywords : ~ HoldsKeyword(name, tag)) => "tags" \notin DOMAIN dict

\* "Pharmacy hospital eye" is tagged pharmacy and optical only.
C21_Witness ==
    /\ Returned("process_record")
    /\ calc.args[1].name = <<"P", "h", "a", "r", "m", "a", "c", "y", " ", "h", "o", "s", "p", "i", "t", "a", "l", " ", "e", "y", "e">>
    /\ calc.out.dict["tags"] = <<"pharmacy", "optical">>

\* C22: every record of the intermediate output has a positive id: a row
\* whose PROVIDER NUMBER is not an integer gives no record, and no record
\* with a zero or negative id is written.
C22_WrittenIdsPositive ==
    calc.op = "convert_csv_to_json" =>
        /\ \A j \in 1..Len(calc.json) : calc.json[j].id > 0
        /\ \A j \in 1..Len(calc.results) : calc.results[j].id > 0

\* The script running, or started last, found its key absent from the
\* environment.
KeyAbsent == calc.op = "os.getenv" /\ calc.out.none

\* C23: a script whose API key is absent from the environment stops before
\* any work: it has loaded nothing, it is not in its loop, and no step it
\* takes issues a lookup or writes the state file.
C23_MissingKeyStopsAtStartup ==
    [][KeyAbsent =>
          /\ located_clinics = <<>>
          /\ pc \in {"idle", "done", "crashed"}
          /\ pc' \in {"idle", "done", "crashed"}
          /\ located_clinics' = <<>>
          /\ UNCHANGED <<file, fileExists, issued, total_requests>>]_vars

\* The Google script was started without its key after a run had written
\* the state file, and has raised.
C23_Witness ==
    /\ KeyAbsent
    /\ calc.returned
    /\ calc.args[1] = GOOGLE
    /\ pc = "crashed"
    /\ fileExists
    /\ origin = "absent"

\* The step is the start of a pass of provider' over an existing non-empty
\* state file.
StartsOverFile == runs' = runs + 1 /\ pc' = "loop" /\ load_json_file # <<>>

\* The entry q of the stored record is a pair outside the box.
StoredOutOfBox(record, q) ==
    q \in DOMAIN record /\ Len(record[q]) = 2 /\ ~ PairInBox(record[q])

\* The start of a pass leaves the state file and the lookups as they were,
\* resets the out-of-box pairs of its provider in the stored records and
\* keeps every other entry of theirs, present or absent; a record reset is
\* not eligible for the provider.
RevalidatesOwnPairs ==
    /\ UNCHANGED <<file, fileExists, issued>>
    /\ total_requests' = 0
    /\ \A j \in 1..Len(load_json_file) :
          LET old == load_json_file[j]
              new == located_clinics'[j]
          IN /\ DOMAIN new = DOMAIN old
             /\ \A q \in DOMAIN old :
                   new[q] = IF q = provider' /\ StoredOutOfBox(old, q) THEN <<>> ELSE old[q]
             /\ StoredOutOfBox(old, provider') => ~ Eligible(provider', new)

C25_MergeAppendsMissing ==
    (pc = "loop" /\ idx = 1 /\ total_requests = 0) =>
        LET missing == SelectSeq(clinics, LAMBDA c : c.id \notin IdsOf(startFile))
        IN /\ \A id \in IdsOf(clinics) :
                 Cardinality({j \in 1..Len(located_clinics) : located_clinics[j].id = id}) = 1
           /\ Len(located_clinics) = Len(startFile) + Len(missing)
           /\ \A j \in 1..Len(startFile) : located_clinics[j] = startFile[j]
           /\ \A j \in 1..Len(missing) :
                 located_clinics[Len(startFile) + j] = Put(missing[j], LOCATIONIQ, <<>>)

\* The OpenCage pass starts on the input 3, 1, 2 over a state file that holds
\* record 2 under another name, then record 1: records 2 and 1 stay as they
\* are and record 3 is appended.
C25_Witness ==
    /\ pc = "loop"
    /\ idx = 1
    /\ total_requests = 0
    /\ provider = OPENCAGE
    /\ Len(clinics) = 3
    /\ clinics[1].id = 3
    /\ clinics[2].id = 1
    /\ Len(startFile) = 2
    /\ startFile[1].id = 2
    /\ startFile[1].name = <<"m">>
    /\ startFile[2].id = 1
    /\ Len(located_clinics) = 3
    /\ located_clinics[1].name = <<"m">>
    /\ located_clinics[3].id = 3
    /\ located_clinics[3][LOCATIONIQ] = <<>>

\* The result is "+971 " + area code + subscriber with the subscriber made
\* of decimal digits only and of the length the area code allows.
CanonicalNumber(str) ==
    /\ Len(str) >= 6
    /\ SubSeq(str, 1, 5) = <<"+", "9", "7", "1", " ">>
    /\ str[6] \in AreaCodes
    /\ LET subscriber == From(str, 6) IN
       /\ \A j \in 1..Len(subscriber) : subscriber[j] \in Digits
       /\ IF str[6] = "5" THEN Len(subscriber) \in 8..9 ELSE Len(subscriber) \in 7..8

\* C26: every non-None result of normalize_single_phone, for every input
\* and every inferred area code in {2, 4, 5}, is "+971 " + area code +
\* subscriber, the area code one of 2, 4, 5, the subscriber decimal digits
\* only (every '+' and every other non-digit of the input stripped), of
\* length 7 to 8 for the area codes 2 and 4 and 8 to 9 for the area code 5.
C26_ResultIsCanonicalNumber ==
    (/\ Returned("normalize_single_phone")
     /\ calc.args[2] \in {<<"2">>, <<"4">>, <<"5">>}
     /\ calc.out.exc = ""
     /\ ~ calc.out.none) => CanonicalNumber(calc.out.str)

\* The state of normalize_phone after its first pass over the field.
AfterFirstPass(phone_str) ==
    first_pass(split_phones(phone_str), 1,
               [normalized_phones |-> <<>>, inferred_area_code |-> <<>>,
                processed_phones |-> {}, exc |-> ""])

\* The area code of the first entry of the field, in field order, that
\* normalizes on its own (<<>> when no entry does).
FirstAreaCode(phone_str) ==
    LET phones == split_phones(phone_str)
        coded == {j \in 1..Len(phones) :
                     LET normalized == normalize_single_phone(phones[j], <<>>) IN
                     Truthy(normalized) /\ search_area_code(normalized.str) # <<>>}
    IN IF coded = {} THEN <<>>
       ELSE search_area_code(
                normalize_single_phone(
                    phones[CHOOSE j \in coded : \A k \in coded : j <= k], <<>>).str)

\* C27: the inferred area code that normalize_phone gives its second pass
\* is the area code of the first number, in field order, that normalized in
\* the first pass, also when later numbers of the field normalized with
\* another area code.
C27_SecondPassTakesFirstAreaCode ==
    (/\ Returned("normalize_phone")
     /\ calc.args[1] # <<>>
     /\ calc.out.exc = "") =>
        AfterFirstPass(calc.args[1]).inferred_area_code = FirstAreaCode(calc.args[1])

\* The seven known localities as they are written in an address, and the
\* alias form of Al Ain.
KnownLocalities ==
    {Spelled(Emirates[j]) : j \in 1..Len(Emirates)}
    \cup {<<"A", "l", " ", "A", "i", "n", ",", " ">> \o Spelled(Emirates[1])}

\* What add_emirate_to_address puts after the cleaned base address (after
\* nothing when the address is empty): <<>> for no suffix, else the
\* locality between the base and the country; <<"?">> when the result does
\* not start with the base.
AppendedLocality(address, name, out) ==
    LET empty == strip(address) = <<>>
        base == IF empty THEN <<>> ELSE remove_emirate_and_country_from_address(address)
        found_country == extract_country_from_address(address)
        country == IF found_country # <<>> /\ ~ empty THEN found_country ELSE <<"U", "A", "E">>
        lead == IF empty THEN <<>> ELSE <<",", " ">>
        tail == <<",", " ">> \o country
        middle == SubSeq(out, Len(base) + Len(lead) + 1, Len(out) - Len(tail))
    IN IF out = (IF empty THEN address ELSE base) THEN <<>>
       ELSE IF /\ Len(out) >= Len(base) + Len(lead) + Len(tail)
               /\ out = base \o lead \o middle \o tail
       THEN middle
       ELSE IF /\ ~ empty
               /\ out = base \o <<",", " ">> \o Spelled(Emirates[1]) \o tail
               /\ Found(<<WordBoundary>> \o Words(<<<<"A", "l">>, <<"A", "i", "n">>>>)
                            \o <<WordBoundary>>, base, TRUE)
       THEN <<"A", "l", " ", "A", "i", "n", ",", " ">> \o Spelled(Emirates[1])
       ELSE <<"?">>

\* C28: the locality that add_emirate_to_address appends is one of the
\* seven known localities or the alias form "Al Ain, Abu Dhabi"; when
\* neither the address nor the name designates one of these, no suffix is
\* appended and the cleaned base address (or the empty address) is returned.
C28_AppendedLocalityIsKnown ==
    Returned("add_emirate_to_address") =>
        AppendedLocality(calc.args[1], calc.args[2], calc.out.str)
            \in KnownLocalities \cup {<<>>}

\* The list the loop of the current run started from.
LoadedAtStart ==
    IF startFile = <<>> THEN InitFromInput(provider, clinics)
    ELSE Revalidate(provider, Merge(provider, startFile, clinics))

\* The step is the final save of a run whose loop stopped at the request cap.
SavesAfterCapBreak ==
    pc = "final" /\ pc' = "done" /\ idx <= Len(located_clinics)

\* C29: when a run of any provider stops early at the request cap, every
\* record not looked up in that run keeps its entry for that provider
\* unchanged; the record at which the cap was hit and every later
\* never-attempted record is still eligible for that provider in the next
\* run.
C29_CapLeavesUnattemptedEligible ==
    [][SavesAfterCapBreak =>
          \A j \in (1..Len(LoadedAtStart)) \ SeqToSet(runLooked) :
              /\ (provider \in DOMAIN file'[j]) = (provider \in DOMAIN LoadedAtStart[j])
              /\ provider \in DOMAIN file'[j] => file'[j][provider] = LoadedAtStart[j][provider]
              /\ j \in SeqToSet(eligible0) => Eligible(provider, file'[j])]_vars

\* What one uncapped pass of provider p leaves in the state file when it
\* starts from the given state file: every record eligible after the load is
\* looked up, and its entry is set from the response for that record.
UncappedFile(p, start) ==
    LET loaded == IF start = <<>> THEN InitFromInput(p, clinics)
                  ELSE Revalidate(p, Merge(p, start, clinics))
    IN [j \in 1..Len(loaded) |->
           IF Eligible(p, loaded[j])
           THEN Put(loaded[j], p, Stored(geocode(ResponseOf(loaded[j]))))
           ELSE loaded[j]]

\* The ids one uncapped pass of provider p looks up from that state file.
UncappedLooked(p, start) ==
    LET loaded == IF start = <<>> THEN InitFromInput(p, clinics)
                  ELSE Revalidate(p, Merge(p, start, clinics))
    IN {loaded[j].id : j \in {x \in 1..Len(loaded) : Eligible(p, loaded[x])}}

\* The state file and the lookups are those of one uncapped pass from the
\* first state file.
AsOneUncappedRun ==
    /\ file = UncappedFile(provider, firstFile)
    /\ \A id \in IdsOf(clinics) :
          issued[provider][id] = IF id \in UncappedLooked(provider, firstFile) THEN 1 ELSE 0

\* C30: capped runs of a fallback pass are resumable: with the input
\* unchanged and responses that depend on the record only, runs with any
\* caps >= 1 repeated until a run issues no lookup end in the persisted state
\* of one uncapped run from the same starting state, and have looked up
\* the same records, each exactly once.
C30_CappedRunsResume ==
    /\ (pc = "done" /\ runs = 1 /\ max_requests = NoMaxRequests) => AsOneUncappedRun
    /\ (pc = "done" /\ total_requests = 0) => AsOneUncappedRun

\* Three runs capped at one lookup each, then a run that finds nothing left.
C30_Witness ==
    /\ pc = "done"
    /\ runs = MaxResumeRuns
    /\ total_requests = 0
    /\ max_requests = 1
    /\ prev.max_requests = 1
    /\ prev.requests = 1
    /\ \A id \in IdsOf(clinics) : issued[provider][id] = 1
    /\ file # firstFile
    /\ AsOneUncappedRun

====
